---- MODULE Spec2Model ----
(***************************************************************************)
(* Session ingestion (adapters/claude_code.py) and signal extraction       *)
(* (strategies/extract.py) of session-intel, as a state machine.           *)
(*                                                                         *)
(* Texts are a finite sample of message texts; the regular-expression      *)
(* tables of the pattern library are tabulated on that sample (the tables  *)
(* below were computed by running check_patterns / detect_intent /         *)
(* detect_domain of the source on every sample text).                      *)
(*                                                                         *)
(* struggle_score is kept in quarter points (the source multiplies by      *)
(* 0.25 and 0.5; every score is a multiple of 0.25, exact in a float).     *)
(***************************************************************************)
EXTENDS Integers, Sequences, FiniteSets, TLC

(* ----------------------------------------------------------------------- *)
(* Bounds of the model                                                     *)
(* ----------------------------------------------------------------------- *)
\* highest modification timestamp an artifact reaches
MaxVer == 2
\* number of ingestion runs that may start (also the range of ingested_at)
MaxClock == 2

(* ----------------------------------------------------------------------- *)
(* Pattern library, tabulated on the sample texts                          *)
(* ----------------------------------------------------------------------- *)
CAVEAT == "<local-command-caveat>ran ls"

UserTexts ==
    { "warmup", "please implement the login fix", "plan the fix",
      "no, that's not what I meant", CAVEAT }

AssistantTexts ==
    { "let me try a different approach", "error: file not found",
      "the issue is resolved, working now", "done",
      "I found the bug in the sql query", "that is resolved",
      "it failed, that's because of a typo", "" }

Texts == UserTexts \cup AssistantTexts

\* sample first messages
FirstMessages ==
    { "can you help me understand how the cache works", "fix the bug",
      "review the PR and fix the error",
      "debug the failing test and fix the error",
      "why is this broken? investigate the error", "investigate the crash",
      "configure the settings", "audit the auth setup",
      "look at CLAUDE.md and review", "implement and implement", "hello there",
      "what is the strategy", "Implement the fix",
      "<command-message>fix</command-message>", "  WarmUp ", "Say Hello",
      "tui", "think high", "# Soul: please implement the login fix",
      "<command-name>/clear</command-name> fix the bug",
      "<command-message>resume</command-message> debug the error",
      "<command-message>tickets</command-message> implement",
      "<command-message>plugin</command-message> implement the fix",
      "please read the latest session and implement the fix",
      "read the latest_session", "warmup please", "warmup",
      "please implement the login fix", "plan the fix",
      "let me try a different approach", "" }

\* texts on which some pattern of the group matches (after lower-casing)
ERROR_PATTERNS ==
    { "error: file not found", "it failed, that's because of a typo" }

RETRY_PATTERNS ==
    { "let me try a different approach", "the issue is resolved, working now" }

CORRECTION_PATTERNS == { "no, that's not what I meant" }

DISCOVERY_PATTERNS ==
    { "the issue is resolved, working now", "that is resolved",
      "it failed, that's because of a typo" }

check_patterns(text, patterns) == text \in patterns

\* the intent labels in the order INTENT_PATTERNS enumerates them
IntentOrder ==
    << "execution", "planning", "debug", "config", "research", "review" >>

\* number of patterns of the label that match the text (lower-cased and
\* trimmed), each pattern counted once
INTENT_PATTERNS(intent, text) ==
    CASE text = "please implement the login fix" /\ intent = "execution" -> 2
      [] text = "plan the fix" /\ intent \in {"execution", "planning"} -> 1
      [] text = "let me try a different approach" /\ intent = "planning" -> 1
      [] text = "error: file not found" /\ intent = "debug" -> 1
      [] text = "i found the bug in the sql query" /\ intent = "debug" -> 1
      [] text = "can you help me understand how the cache works"
           /\ intent = "research" -> 1
      [] text = "fix the bug" /\ intent \in {"execution", "debug"} -> 1
      [] text = "review the pr and fix the error"
           /\ intent \in {"execution", "debug", "review"} -> 1
      [] text = "debug the failing test and fix the error"
           /\ intent = "execution" -> 1
      [] text = "debug the failing test and fix the error"
           /\ intent = "debug" -> 3
      [] text = "why is this broken? investigate the error"
           /\ intent = "debug" -> 3
      [] text = "why is this broken? investigate the error"
           /\ intent = "research" -> 1
      [] text = "investigate the crash"
           /\ intent \in {"debug", "research"} -> 1
      [] text = "configure the settings" /\ intent = "config" -> 1
      [] text = "audit the auth setup" /\ intent = "config" -> 2
      [] text = "audit the auth setup" /\ intent = "review" -> 1
      [] text = "look at claude.md and review" /\ intent = "review" -> 4
      [] text = "implement and implement" /\ intent = "execution" -> 1
      [] text = "what is the strategy"
           /\ intent \in {"planning", "research"} -> 1
      [] text = "implement the fix" /\ intent = "execution" -> 2
      [] text = "<command-message>fix</command-message>"
           /\ intent = "execution" -> 2
      [] text = "<command-message>fix</command-message>"
           /\ intent = "debug" -> 1
      [] text = "# soul: please implement the login fix"
           /\ intent = "execution" -> 2
      [] text = "<command-name>/clear</command-name> fix the bug"
           /\ intent \in {"execution", "debug"} -> 1
      [] text = "<command-message>resume</command-message> debug the error"
           /\ intent = "debug" -> 2
      [] text = "<command-message>tickets</command-message> implement"
           /\ intent = "execution" -> 1
      [] text = "<command-message>plugin</command-message> implement the fix"
           /\ intent = "execution" -> 2
      [] text = "please read the latest session and implement the fix"
           /\ intent = "execution" -> 2
      [] OTHER -> 0

\* text.lower().strip(): the sample texts not listed are lower-case and
\* trimmed already
Normalized(text) ==
    CASE text = "review the PR and fix the error"
           -> "review the pr and fix the error"
      [] text = "look at CLAUDE.md and review"
           -> "look at claude.md and review"
      [] text = "Implement the fix" -> "implement the fix"
      [] text = "I found the bug in the sql query"
           -> "i found the bug in the sql query"
      [] text = "no, that's not what I meant"
           -> "no, that's not what i meant"
      [] text = "  WarmUp " -> "warmup"
      [] text = "Say Hello" -> "say hello"
      [] text = "# Soul: please implement the login fix"
           -> "# soul: please implement the login fix"
      [] OTHER -> text

\* text.startswith(prefix), on the sample texts
StartsWith(text, prefix) ==
    \/ /\ prefix = "# soul"
       /\ text \in
            { "# soul: please implement the login fix" }
    \/ /\ prefix = "<command-name>/clear"
       /\ text \in
            { "<command-name>/clear</command-name> fix the bug" }
    \/ /\ prefix = "<command-message>resume"
       /\ text \in
            { "<command-message>resume</command-message> debug the error" }
    \/ /\ prefix = "<command-message>tickets"
       /\ text \in
            { "<command-message>tickets</command-message> implement" }
    \/ /\ prefix = "<command-message>plugin"
       /\ text \in
            { "<command-message>plugin</command-message> implement the fix" }

\* part in text, on the sample texts
Contains(text, part) ==
    \/ /\ part = "read the latest session"
       /\ text \in
            { "please read the latest session and implement the fix" }
    \/ /\ part = "read the latest_session"
       /\ text \in
            { "read the latest_session" }

\* the literal / prefix rules that come before the scoring, in their
\* order; text is lower-cased and trimmed
SpecialIntent(text) ==
    IF text \in {"warmup", "say hello", "tui", "think high"} THEN "startup"
    ELSE IF StartsWith(text, "# soul") THEN "startup"
    ELSE IF StartsWith(text, "<command-name>/clear") THEN "continuation"
    ELSE IF StartsWith(text, "<command-message>resume") THEN "execution"
    ELSE IF StartsWith(text, "<command-message>tickets") THEN "review"
    ELSE IF StartsWith(text, "<command-message>plugin") THEN "config"
    ELSE IF \/ Contains(text, "read the latest session")
            \/ Contains(text, "read the latest_session") THEN "startup"
    ELSE "none"

RECURSIVE BestIntentLastWins(_, _, _, _)
\* of the labels with the highest score, the last one
BestIntentLastWins(text, i, best, bestScore) ==
    IF i > Len(IntentOrder) THEN best
    ELSE LET s == INTENT_PATTERNS(IntentOrder[i], text)
         IN  IF s > 0 /\ s >= bestScore
             THEN BestIntentLastWins(text, i + 1, IntentOrder[i], s)
             ELSE BestIntentLastWins(text, i + 1, best, bestScore)

RECURSIVE BestIntent(_, _, _, _)
\* max(scores, key=scores.get): the first label, in enumeration order, with
\* the highest positive score
BestIntent(text, i, best, bestScore) ==
    IF i > Len(IntentOrder) THEN best
    ELSE LET s == INTENT_PATTERNS(IntentOrder[i], text)
         IN  IF s > bestScore
             THEN BestIntent(text, i + 1, IntentOrder[i], s)
             ELSE BestIntent(text, i + 1, best, bestScore)

\* the scoring before the literal / prefix rules
detect_intentScoringFirst(first_message) ==
    IF first_message = "" THEN "unknown"
    ELSE LET text == Normalized(first_message)
         IN  IF BestIntent(text, 1, "unknown", 0) # "unknown"
             THEN BestIntent(text, 1, "unknown", 0)
             ELSE IF SpecialIntent(text) # "none" THEN SpecialIntent(text)
                  ELSE "unknown"

\* first_message is "" when the session has none
detect_intent(first_message) ==
    IF first_message = "" THEN "unknown"
    ELSE LET text == Normalized(first_message)
         IN  IF SpecialIntent(text) # "none" THEN SpecialIntent(text)
             ELSE BestIntent(text, 1, "unknown", 0)

\* the balanced formula for every intent, in quarter points
compute_struggle_scoreBalanced(session) ==
    4 * (session.error_count + session.retry_count
            + session.correction_count * 2)

\* in quarter points
compute_struggle_score(session) ==
    LET intent      == session.intent
        errors      == session.error_count
        retries     == session.retry_count
        corrections == session.correction_count
    IN  CASE intent = "execution" ->
               4 * (errors * 2 + retries * 2 + corrections * 3)
          [] intent = "planning" -> 4 * (corrections * 3) + retries
          [] intent = "debug" -> 4 * (retries * 1 + corrections * 3)
          [] intent = "config" -> 4 * (retries * 2 + errors * 1)
          [] intent = "research" -> 4 * (corrections * 3)
          [] intent = "review" -> 4 * (corrections * 2) + 2 * retries
          [] intent = "startup" -> 0
          [] intent = "continuation" ->
               4 * (errors * 2 + retries * 2 + corrections * 3)
          [] OTHER -> 4 * (errors + retries + corrections * 2)

\* the domain labels in the order DOMAIN_PATTERNS enumerates them
DomainOrder ==
    << "ui/design", "data", "workflow/automation", "architecture", "api",
       "infra/deploy", "config/auth", "metadata", "test/qa" >>

\* number of occurrences of the label's patterns in the text
DOMAIN_PATTERNS(domain, text) ==
    CASE text = "I found the bug in the sql query" /\ domain = "data" -> 2
      [] text = "style the button" /\ domain = "ui/design" -> 2
      [] text = "the sql query reads the table" /\ domain = "data" -> 3
      [] text = "fetch the api endpoint" /\ domain = "data" -> 1
      [] text = "fetch the api endpoint" /\ domain = "api" -> 3
      [] text = "refactor the pattern" /\ domain = "architecture" -> 3
      [] text = "SQL Database" /\ domain = "data" -> 2
      [] text = "run the test" /\ domain = "test/qa" -> 1
      [] OTHER -> 0

\* the occurrences in the first message only
DomainScoreFirstOnly(domain, messages, i) ==
    IF i > Len(messages) THEN 0
    ELSE DOMAIN_PATTERNS(domain, messages[i].content_preview)

RECURSIVE DomainScore(_, _, _)
DomainScore(domain, messages, i) ==
    IF i > Len(messages) THEN 0
    ELSE DOMAIN_PATTERNS(domain, messages[i].content_preview)
         + DomainScore(domain, messages, i + 1)

RECURSIVE BestDomain(_, _, _, _)
BestDomain(messages, i, best, bestScore) ==
    IF i > Len(DomainOrder) THEN best
    ELSE LET s == DomainScore(DomainOrder[i], messages, 1)
         IN  IF s > bestScore
             THEN BestDomain(messages, i + 1, DomainOrder[i], s)
             ELSE BestDomain(messages, i + 1, best, bestScore)

detect_domain(messages) == BestDomain(messages, 1, "general", 0)

(* ----------------------------------------------------------------------- *)
(* Session logs                                                            *)
(* ----------------------------------------------------------------------- *)
\* a line of a log: a user or assistant record, a record of another type,
\* a line that is not JSON, or a line on which reading raises (a JSON value
\* that is not an object, undecodable bytes)
U(text) == [type |-> "user", text |-> text, tools |-> << >>]
A(text, tools) == [type |-> "assistant", text |-> text, tools |-> tools]
Other == [type |-> "system", text |-> "", tools |-> << >>]
Malformed == [type |-> "malformed", text |-> "", tools |-> << >>]
Raises == [type |-> "raises", text |-> "", tools |-> << >>]

Logs ==
    << \* 1: an execution session with a retry, an error and a correction
       << U("please implement the login fix"),
          A("let me try a different approach", << "Bash" >>),
          A("error: file not found", << "Read", "Bash" >>),
          U("no, that's not what I meant") >>,
       \* 2: a short session
       << U("warmup"), A("I found the bug in the sql query", << >>) >>,
       \* 3: skipped lines, a caveat before the first message
       << Other, U(CAVEAT), Malformed, U("plan the fix"),
          A("the issue is resolved, working now", << "Bash" >>) >>,
       \* 4: reading raises after two records
       << U("please implement the login fix"),
          A("error: file not found", << >>),
          Raises,
          A("let me try a different approach", << >>) >> >>

(* ----------------------------------------------------------------------- *)
(* process_session                                                         *)
(* ----------------------------------------------------------------------- *)
\* Python's None, where the source stores it
None == "None"

\* the artifacts: one log per session, in one directory per project
Paths ==
    { [dir |-> "p1", sid |-> "a"], [dir |-> "p1", sid |-> "b"],
      [dir |-> "p2", sid |-> "a"] }

\* no sample directory name has more than three "-"-separated parts
decode_project_name(dirname) == dirname

SessionId(session_id) == << "claude-code", session_id >>

Ids == { SessionId(p.sid) : p \in Paths }

\* the dictionary process_session starts from (size_bytes, created_at and
\* duration_minutes, plain file metadata, are left out)
NewSession(path, mtime) ==
    [ id |-> SessionId(path.sid),
      project |-> decode_project_name(path.dir),
      session_id |-> path.sid,
      first_message |-> None,
      message_count |-> 0,
      user_message_count |-> 0,
      assistant_message_count |-> 0,
      tool_call_count |-> 0,
      error_count |-> 0,
      retry_count |-> 0,
      correction_count |-> 0,
      unique_tools |-> {},
      modified_at |-> mtime,
      raw_path |-> path ]

Range(seq) == { seq[i] : i \in 1..Len(seq) }

B2I(b) == IF b THEN 1 ELSE 0

\* SQL NULL in the tool_names column
NULL == << >>

\* json.dumps of a list of names, and json.loads of such a text
json_dumps(names) == << "json" >> \o names
json_loads(text) == Tail(text)

\* the marker of a local-command caveat
CaveatMarker == "<local-command-caveat>"

\* text.startswith(prefix)
HasPrefix(text, prefix) ==
    Len(text) >= Len(prefix) /\ SubSeq(text, 1, Len(prefix)) = prefix

\* the length first_message and content_preview are cut to
PreviewLimit == 300

\* text[:300]
Truncated(text) ==
    IF Len(text) > PreviewLimit THEN SubSeq(text, 1, PreviewLimit) ELSE text

\* the four flags and the tool names computed whatever the record's type
AccumulateAnyRole(acc, line) ==
    LET msg_type     == line.type
        text         == line.text
        tool_names   == line.tools
        has_error    == check_patterns(text, ERROR_PATTERNS)
        is_retry     == check_patterns(text, RETRY_PATTERNS)
        is_discovery == check_patterns(text, DISCOVERY_PATTERNS)
        is_correction == check_patterns(text, CORRECTION_PATTERNS)
        s == acc.session
    IN  [ session |->
            [ s EXCEPT
                !.first_message =
                    IF msg_type = "user" /\ @ = None
                       /\ ~ HasPrefix(text, CaveatMarker)
                    THEN Truncated(text) ELSE @,
                !.message_count = @ + 1,
                !.user_message_count = @ + B2I(msg_type = "user"),
                !.assistant_message_count = @ + B2I(msg_type # "user"),
                !.tool_call_count = @ + Len(tool_names),
                !.error_count = @ + B2I(has_error),
                !.retry_count = @ + B2I(is_retry),
                !.correction_count = @ + B2I(is_correction),
                !.unique_tools = @ \cup Range(tool_names) ],
          messages |->
            Append(acc.messages,
                   [ seq |-> acc.seq,
                     role |-> msg_type,
                     content_preview |-> Truncated(text),
                     tool_names |-> IF tool_names # << >>
                                    THEN json_dumps(tool_names) ELSE NULL,
                     tool_call_count |-> Len(tool_names),
                     has_error |-> B2I(has_error),
                     is_retry |-> B2I(is_retry),
                     is_correction |-> B2I(is_correction),
                     is_discovery |-> B2I(is_discovery) ]),
          seq |-> acc.seq + 1 ]

\* one pass of the loop body on a user or assistant record
Accumulate(acc, line) ==
    LET msg_type     == line.type
        text         == line.text
        tool_names   == IF msg_type = "assistant" THEN line.tools ELSE << >>
        has_error    == msg_type = "assistant"
                        /\ check_patterns(text, ERROR_PATTERNS)
        is_retry     == msg_type = "assistant"
                        /\ check_patterns(text, RETRY_PATTERNS)
        is_discovery == msg_type = "assistant"
                        /\ check_patterns(text, DISCOVERY_PATTERNS)
        is_correction == msg_type = "user"
                        /\ check_patterns(text, CORRECTION_PATTERNS)
        s == acc.session
    IN  [ session |->
            [ s EXCEPT
                !.first_message =
                    IF msg_type = "user" /\ @ = None
                       /\ ~ HasPrefix(text, CaveatMarker)
                    THEN Truncated(text) ELSE @,
                !.message_count = @ + 1,
                !.user_message_count = @ + B2I(msg_type = "user"),
                !.assistant_message_count = @ + B2I(msg_type # "user"),
                !.tool_call_count = @ + Len(tool_names),
                !.error_count = @ + B2I(has_error),
                !.retry_count = @ + B2I(is_retry),
                !.correction_count = @ + B2I(is_correction),
                !.unique_tools = @ \cup Range(tool_names) ],
          messages |->
            Append(acc.messages,
                   [ seq |-> acc.seq,
                     role |-> msg_type,
                     content_preview |-> Truncated(text),
                     tool_names |-> IF tool_names # << >>
                                    THEN json_dumps(tool_names) ELSE NULL,
                     tool_call_count |-> Len(tool_names),
                     has_error |-> B2I(has_error),
                     is_retry |-> B2I(is_retry),
                     is_correction |-> B2I(is_correction),
                     is_discovery |-> B2I(is_discovery) ]),
          seq |-> acc.seq + 1 ]

RECURSIVE ReadLinesCountingAll(_, _, _)
\* message_count incremented before the record's type is looked at
ReadLinesCountingAll(lines, i, acc) ==
    IF i > Len(lines) THEN acc
    ELSE CASE lines[i].type = "raises" -> acc
           [] lines[i].type \in {"user", "assistant"} ->
                ReadLinesCountingAll(lines, i + 1, Accumulate(acc, lines[i]))
           [] OTHER ->
                ReadLinesCountingAll(lines, i + 1,
                    [acc EXCEPT !.session.message_count = @ + 1])

RECURSIVE ReadLines(_, _, _)
\* the loop over the file's lines, inside the try block
ReadLines(lines, i, acc) ==
    IF i > Len(lines) THEN acc
    ELSE CASE lines[i].type = "raises" -> acc
           [] lines[i].type \in {"user", "assistant"} ->
                ReadLines(lines, i + 1, Accumulate(acc, lines[i]))
           [] OTHER -> ReadLines(lines, i + 1, acc)

\* the score computed before the intent is set
DeriveScoreFirst(session, messages) ==
    LET score == compute_struggle_score(
                     [ f \in DOMAIN session \cup {"intent"} |->
                         IF f = "intent" THEN "unknown" ELSE session[f] ])
    IN  [ f \in DOMAIN session \cup {"intent", "domain", "struggle_score"} |->
            CASE f = "intent" ->
                   detect_intent(IF session.first_message = None
                                 THEN "" ELSE session.first_message)
              [] f = "domain" -> detect_domain(messages)
              [] f = "struggle_score" -> score
              [] OTHER -> session[f] ]

\* the derived fields, set after the loop (and after the except clause)
Derive(session, messages) ==
    LET withIntent ==
            [ f \in DOMAIN session \cup {"intent"} |->
                IF f = "intent"
                THEN detect_intent(IF session.first_message = None
                                   THEN "" ELSE session.first_message)
                ELSE session[f] ]
        withDomain ==
            [ f \in DOMAIN withIntent \cup {"domain"} |->
                IF f = "domain" THEN detect_domain(messages)
                ELSE withIntent[f] ]
    IN  [ f \in DOMAIN withDomain \cup {"struggle_score"} |->
            IF f = "struggle_score" THEN compute_struggle_score(withDomain)
            ELSE withDomain[f] ]

\* << session, messages >> of one artifact
process_session(lines, path, mtime) ==
    LET acc == ReadLines(lines, 1,
                         [ session |-> NewSession(path, mtime),
                           messages |-> << >>, seq |-> 0 ])
    IN  [ session |-> Derive(acc.session, acc.messages),
          messages |-> acc.messages ]

(* ----------------------------------------------------------------------- *)
(* The store, the artifacts and the ingestion runs                         *)
(* ----------------------------------------------------------------------- *)
\* the ingestion processes that may use the store
Runs == {1, 2}

VARIABLES
    files,      \* path -> [mtime, log]: the artifact's timestamp and content
    listing,    \* the order in which the two glob loops yield the artifacts
    db,         \* the committed store: [sessions, messages]
    clock,      \* datetime('now'), counted in runs started
    lock,       \* the run holding the store's write lock, 0 when free
    pc,         \* run -> where the run is in ingest()
    args,       \* run -> [force, project_filter, now]
    existing,   \* run -> (path -> stored modified_at, 0 when not stored)
    todo,       \* run -> how many artifacts the glob loops have yielded
    cur,        \* run -> the artifact being replaced, as processed
    tx,         \* run -> the store as the run's open transaction sees it
    counts,     \* run -> [ingested, skipped, updated]
    startDb,    \* history: run -> the committed store when the run started
    prevSeen,   \* history: path -> timestamp the last completed run saw
    unchanged,  \* history: run -> every artifact seen so far was in prevSeen
    seen,       \* history: run -> (path -> timestamp the run saw, 0 if none)
    skippedAs,  \* history: run -> the artifacts skipped as unchanged
    broken,     \* history: path -> how the last interrupted replace was run
    owed,       \* history: run -> broken, as it was when the run started
    xdb,        \* the store an extractor is run on
    xout        \* what the last extractor call returned

vars ==
    << files, listing, db, clock, lock, pc, args, existing, todo, cur, tx,
       counts, startDb, prevSeen, unchanged, seen, skippedAs, broken, owed,
       xdb, xout >>

envVars == << files, listing >>

\* the orders glob may yield the artifacts in: one directory after the
\* other, in either order (the files of one directory in name order)
Listings ==
    { << [dir |-> "p1", sid |-> "a"], [dir |-> "p1", sid |-> "b"],
         [dir |-> "p2", sid |-> "a"] >>,
      << [dir |-> "p2", sid |-> "a"], [dir |-> "p1", sid |-> "a"],
         [dir |-> "p1", sid |-> "b"] >> }
extractVars == << xdb, xout >>
runVars == << pc, args, existing, todo, cur, tx, counts >>
histVars == << startDb, prevSeen, unchanged, seen, skippedAs, broken, owed >>

EmptyDb == [sessions |-> {}, messages |-> << >>]
NoOut == [strategy |-> "none"]
NoTx == [sessions |-> {}, messages |-> << >>, open |-> FALSE]
NoCur == [set |-> FALSE]

(* ------------------------- the store's statements ---------------------- *)
\* SELECT raw_path, modified_at FROM sessions, as the dictionary `existing`
SelectExisting(store) ==
    [p \in Paths |->
        IF \E s \in store.sessions : s.raw_path = p
        THEN (CHOOSE s \in store.sessions : s.raw_path = p).modified_at
        ELSE 0]

\* INSERT OR REPLACE INTO sessions: id is the table's primary key
InsertOrReplace(sessions, row) ==
    { s \in sessions : s.id # row.id } \cup {row}

\* the DELETE left out
DeleteNothing(messages, id) == messages

\* DELETE FROM messages WHERE session_id = ?
DeleteMessages(messages, id) ==
    LET Keep(m) == m.session_id # id IN SelectSeq(messages, Keep)

\* INSERT INTO messages: the row of one message of session id
MessageRow(id, msg) ==
    [ f \in DOMAIN msg \cup {"session_id"} |->
        IF f = "session_id" THEN id ELSE msg[f] ]

InsertMessage(messages, id, msg) == Append(messages, MessageRow(id, msg))

\* the session's row: the dictionary plus ingested_at = datetime('now')
SessionRow(session, now) ==
    [ f \in DOMAIN session \cup {"ingested_at"} |->
        IF f = "ingested_at" THEN now ELSE session[f] ]

\* SELECT ... FROM messages WHERE session_id = ? (in rowid order)
MessagesOf(store, id) ==
    LET Mine(m) == m.session_id = id IN SelectSeq(store.messages, Mine)

InitialLog(p) == IF p.sid = "a" THEN (IF p.dir = "p1" THEN 1 ELSE 3) ELSE 4

\* one statement after the other, the replace of one session
Replaced(store, out, now) ==
    LET id == out.session.id
        F[i \in 0..Len(out.messages)] ==
            IF i = 0 THEN DeleteMessages(store.messages, id)
            ELSE InsertMessage(F[i - 1], id, out.messages[i])
    IN  [ sessions |->
            InsertOrReplace(store.sessions, SessionRow(out.session, now)),
          messages |-> F[Len(out.messages)] ]

RECURSIVE IngestedBefore(_, _)
\* the store a completed earlier run over the first n artifacts of the
\* listing, at their first timestamp, has left
IngestedBefore(l, n) ==
    IF n = 0 THEN EmptyDb
    ELSE Replaced(IngestedBefore(l, n - 1),
                  process_session(Logs[InitialLog(l[n])], l[n], 1), 0)

\* the store is new, or holds what an earlier run over the artifacts left
InitIngest ==
    /\ files = [p \in Paths |-> [mtime |-> 1, log |-> InitialLog(p)]]
    /\ listing \in Listings
    /\ db \in {EmptyDb, IngestedBefore(listing, Len(listing))}
    /\ clock = 0
    /\ lock = 0
    /\ pc = [r \in Runs |-> "idle"]
    /\ args = [r \in Runs |->
                 [force |-> FALSE, project_filter |-> None, now |-> 0]]
    /\ existing = [r \in Runs |-> [p \in Paths |-> 0]]
    /\ todo = [r \in Runs |-> 0]
    /\ cur = [r \in Runs |-> NoCur]
    /\ tx = [r \in Runs |-> NoTx]
    /\ counts = [r \in Runs |-> [ingested |-> 0, skipped |-> 0, updated |-> 0]]
    /\ startDb = [r \in Runs |-> db]
    /\ prevSeen = [p \in Paths |-> IF db = EmptyDb THEN 0 ELSE 1]
    /\ unchanged = [r \in Runs |-> FALSE]
    /\ seen = [r \in Runs |-> [p \in Paths |-> 0]]
    /\ skippedAs = [r \in Runs |-> {}]
    /\ broken = [p \in Paths |-> "no"]
    /\ owed = [r \in Runs |-> [p \in Paths |-> "no"]]

\* no extractor runs while ingestion is looked at
Init ==
    /\ InitIngest
    /\ xdb = EmptyDb
    /\ xout = NoOut

(* ------------------------------ the artifacts -------------------------- *)
\* the values of --project the runs are given (None: no filter)
Filters == {None, "p2"}

\* project_filter.lower() not in project.lower(), on the sample names
FilteredOut(project_filter, project) ==
    project_filter # None /\ project_filter # project

\* whether the glob loops of run r have yielded p
Yielded(r, p) == \E i \in 1..todo[r] : listing[i] = p

\* the session's program appends to an artifact or rewrites it. Only the
\* step of a run that visits the artifact reads it: a change at any other
\* moment is the same as one just before the next visit, so a change is
\* taken while some run, of the runs rs, has the visit ahead of it.
Touch(p, rs) ==
    /\ UNCHANGED extractVars
    /\ files[p].mtime < MaxVer
    /\ \E r \in rs :
          /\ pc[r] = "scan"
          /\ ~ Yielded(r, p)
          /\ ~ FilteredOut(args[r].project_filter,
                           decode_project_name(p.dir))
    /\ files' = [files EXCEPT ![p] = [mtime |-> @.mtime + 1,
                                      log |-> (@.log % Len(Logs)) + 1]]
    /\ UNCHANGED << listing, db, clock, lock >>
    /\ UNCHANGED runVars
    /\ UNCHANGED histVars

(* ------------------------------- ingest() ------------------------------ *)
\* the glob loops yield p next
MayYield(r, p) ==
    /\ todo[r] < Len(listing)
    /\ listing[todo[r] + 1] = p

\* connect, read `existing` (empty under force), zero the counters
StartRun(r, force, project_filter) ==
    /\ UNCHANGED extractVars
    /\ pc[r] \in {"idle", "done", "failed", "killed"}
    /\ clock < MaxClock
    /\ clock' = clock + 1
    /\ pc' = [pc EXCEPT ![r] = "scan"]
    /\ args' = [args EXCEPT ![r] = [force |-> force,
                                     project_filter |-> project_filter,
                                     now |-> clock + 1]]
    /\ existing' = [existing EXCEPT ![r] =
                        IF force THEN [p \in Paths |-> 0]
                        ELSE SelectExisting(db)]
    /\ todo' = [todo EXCEPT ![r] = 0]
    /\ cur' = [cur EXCEPT ![r] = NoCur]
    /\ tx' = [tx EXCEPT ![r] = NoTx]
    /\ counts' = [counts EXCEPT ![r] =
                      [ingested |-> 0, skipped |-> 0, updated |-> 0]]
    /\ startDb' = [startDb EXCEPT ![r] = db]
    /\ unchanged' = [unchanged EXCEPT ![r] = TRUE]
    /\ seen' = [seen EXCEPT ![r] = [p \in Paths |-> 0]]
    /\ skippedAs' = [skippedAs EXCEPT ![r] = {}]
    /\ owed' = [owed EXCEPT ![r] = broken]
    /\ broken' = [p \in Paths |-> "no"]
    /\ UNCHANGED << files, listing, db, lock, prevSeen >>

\* the project filter: the directory's files are passed over
FilterOut(r, p) ==
    /\ UNCHANGED extractVars
    /\ pc[r] = "scan"
    /\ MayYield(r, p)
    /\ FilteredOut(args[r].project_filter, decode_project_name(p.dir))
    /\ todo' = [todo EXCEPT ![r] = @ + 1]
    /\ UNCHANGED << files, listing, db, clock, lock, pc, args, existing,
                    cur, tx,
                    counts >>
    /\ UNCHANGED histVars

Visit(r, p) ==
    /\ pc[r] = "scan"
    /\ MayYield(r, p)
    /\ ~ FilteredOut(args[r].project_filter, decode_project_name(p.dir))
    /\ todo' = [todo EXCEPT ![r] = @ + 1]
    /\ seen' = [seen EXCEPT ![r][p] = files[p].mtime]
    /\ unchanged' = [unchanged EXCEPT ![r] =
                         @ /\ prevSeen[p] = files[p].mtime]

\* fpath in existing and existing[fpath] == mod_iso
IsUnchanged(r, p) ==
    existing[r][p] # 0 /\ existing[r][p] = files[p].mtime

\* already ingested and unchanged: skipped += 1
SkipUnchanged(r, p) ==
    /\ UNCHANGED extractVars
    /\ Visit(r, p)
    /\ IsUnchanged(r, p)
    /\ counts' = [counts EXCEPT ![r].skipped = @ + 1]
    /\ skippedAs' = [skippedAs EXCEPT ![r] = @ \cup {p}]
    /\ UNCHANGED << files, listing, db, clock, lock, pc, args, existing,
                    cur, tx >>
    /\ UNCHANGED << startDb, prevSeen, broken, owed >>

\* whether reading the log raises before its end
RaisesIn(lines) == \E i \in 1..Len(lines) : lines[i].type = "raises"

\* session, messages = process_session(...); is_update = fpath in existing
Process(r, p) ==
    /\ UNCHANGED extractVars
    /\ Visit(r, p)
    /\ ~ IsUnchanged(r, p)
    /\ LET out == process_session(Logs[files[p].log], p, files[p].mtime)
       IN  cur' = [cur EXCEPT ![r] =
                      [ set |-> TRUE,
                        path |-> p,
                        session |-> out.session,
                        messages |-> out.messages,
                        is_update |-> existing[r][p] # 0,
                        next |-> 1,
                        raised |-> RaisesIn(Logs[files[p].log]) ]]
    /\ pc' = [pc EXCEPT ![r] = "upsert"]
    /\ UNCHANGED << files, listing, db, clock, lock, args, existing, tx,
                    counts >>
    /\ UNCHANGED << startDb, prevSeen, skippedAs, broken, owed >>

\* the store as run r's connection reads it
View(r) == IF tx[r].open THEN tx[r] ELSE db

\* the first write of a run opens its transaction and takes the write lock
MayWrite(r) == lock \in {0, r}

\* INSERT OR REPLACE INTO sessions
UpsertSession(r) ==
    /\ UNCHANGED extractVars
    /\ pc[r] = "upsert"
    /\ MayWrite(r)
    /\ lock' = r
    /\ tx' = [tx EXCEPT ![r] =
                 [ sessions |->
                     InsertOrReplace(View(r).sessions,
                                     SessionRow(cur[r].session, args[r].now)),
                   messages |-> View(r).messages,
                   open |-> TRUE ]]
    /\ pc' = [pc EXCEPT ![r] = "delete"]
    /\ UNCHANGED << files, listing, db, clock, args, existing, todo, cur,
                    counts >>
    /\ UNCHANGED histVars

\* DELETE FROM messages WHERE session_id = ?
ReplaceDelete(r) ==
    /\ UNCHANGED extractVars
    /\ pc[r] = "delete"
    /\ tx' = [tx EXCEPT ![r].messages =
                 DeleteMessages(@, cur[r].session.id)]
    /\ pc' = [pc EXCEPT ![r] = "insert"]
    /\ UNCHANGED << files, listing, db, clock, lock, args, existing, todo, cur,
                    counts >>
    /\ UNCHANGED histVars

\* for msg in messages: INSERT INTO messages
ReplaceInsert(r) ==
    /\ UNCHANGED extractVars
    /\ pc[r] = "insert"
    /\ cur[r].next <= Len(cur[r].messages)
    /\ tx' = [tx EXCEPT ![r].messages =
                 InsertMessage(@, cur[r].session.id,
                               cur[r].messages[cur[r].next])]
    /\ cur' = [cur EXCEPT ![r].next = @ + 1]
    /\ UNCHANGED << files, listing, db, clock, lock, pc, args, existing, todo,
                    counts >>
    /\ UNCHANGED histVars

\* if is_update: updated += 1 else: ingested += 1
Counted(r) ==
    /\ UNCHANGED extractVars
    /\ pc[r] = "insert"
    /\ cur[r].next > Len(cur[r].messages)
    /\ counts' = [counts EXCEPT ![r] =
                      IF cur[r].is_update
                      THEN [@ EXCEPT !.updated = @ + 1]
                      ELSE [@ EXCEPT !.ingested = @ + 1]]
    /\ pc' = [pc EXCEPT ![r] = "scan"]
    /\ UNCHANGED << files, listing, db, clock, lock, args, existing, todo,
                    cur, tx >>
    /\ UNCHANGED histVars

\* db.commit(), after the loops
Commit(r) ==
    /\ UNCHANGED extractVars
    /\ pc[r] = "scan"
    /\ todo[r] = Len(listing)
    /\ db' = IF tx[r].open
             THEN [sessions |-> tx[r].sessions, messages |-> tx[r].messages]
             ELSE db
    /\ lock' = IF lock = r THEN 0 ELSE lock
    /\ tx' = [tx EXCEPT ![r].open = FALSE]
    /\ pc' = [pc EXCEPT ![r] = "done"]
    /\ prevSeen' = [p \in Paths |->
                       IF seen[r][p] # 0 THEN seen[r][p] ELSE prevSeen[p]]
    /\ UNCHANGED << files, listing, clock, args, existing, todo, cur, counts >>
    /\ UNCHANGED << startDb, unchanged, seen, skippedAs, broken, owed >>

\* every statement committed as it is executed: nothing to roll back
RollbackKeepsWrites(r, how) ==
    /\ UNCHANGED extractVars
    /\ lock' = IF lock = r THEN 0 ELSE lock
    /\ db' = IF tx[r].open
             THEN [sessions |-> tx[r].sessions, messages |-> tx[r].messages]
             ELSE db
    /\ tx' = tx
    /\ pc' = [pc EXCEPT ![r] = how]
    /\ broken' = IF pc[r] \in {"delete", "insert"}
                 THEN [broken EXCEPT ![cur[r].path] =
                          IF args[r].force THEN "forced" ELSE "unforced"]
                 ELSE broken
    /\ UNCHANGED << files, listing, clock, args, existing, todo, cur,
                    counts >>
    /\ UNCHANGED << startDb, prevSeen, unchanged, seen, skippedAs, owed >>

\* the run ends without db.commit(): the open transaction is rolled back
\* (tx[r] is kept, as the record of what the run had written)
Rollback(r, how) ==
    /\ UNCHANGED extractVars
    /\ lock' = IF lock = r THEN 0 ELSE lock
    /\ db' = db
    /\ tx' = tx
    /\ pc' = [pc EXCEPT ![r] = how]
    /\ broken' = IF pc[r] \in {"delete", "insert"}
                 THEN [broken EXCEPT ![cur[r].path] =
                          IF args[r].force THEN "forced" ELSE "unforced"]
                 ELSE broken
    /\ UNCHANGED << files, listing, clock, args, existing, todo, cur, counts >>
    /\ UNCHANGED << startDb, prevSeen, unchanged, seen, skippedAs, owed >>

\* a statement of the replace raises (sqlite3.Error): nothing catches it
WriteFail(r) ==
    /\ pc[r] \in {"upsert", "delete", "insert"}
    /\ (pc[r] = "insert" => cur[r].next <= Len(cur[r].messages))
    /\ Rollback(r, "failed")

\* the process is interrupted or killed
Interrupt(r) ==
    /\ pc[r] \in {"scan", "upsert", "delete", "insert"}
    /\ Rollback(r, "killed")

RunStep(r) ==
    \/ \E force \in BOOLEAN, f \in Filters : StartRun(r, force, f)
    \/ \E p \in Paths : FilterOut(r, p)
    \/ \E p \in Paths : SkipUnchanged(r, p)
    \/ \E p \in Paths : Process(r, p)
    \/ UpsertSession(r)
    \/ ReplaceDelete(r)
    \/ ReplaceInsert(r)
    \/ Counted(r)
    \/ Commit(r)
    \/ WriteFail(r)
    \/ Interrupt(r)

\* one ingestion process at a time
Next ==
    \/ \E p \in Paths : Touch(p, {1})
    \/ RunStep(1)

Spec == Init /\ [][Next]_vars

\* ingestion processes that overlap in time
ConcStep(r) ==
    \/ \E force \in BOOLEAN : StartRun(r, force, "p2")
    \/ \E p \in Paths : FilterOut(r, p)
    \/ \E p \in Paths : SkipUnchanged(r, p)
    \/ \E p \in Paths : Process(r, p)
    \/ UpsertSession(r)
    \/ ReplaceDelete(r)
    \/ ReplaceInsert(r)
    \/ Counted(r)
    \/ Commit(r)
    \/ WriteFail(r)
    \/ Interrupt(r)

NextConc ==
    \/ \E p \in Paths : Touch(p, Runs)
    \/ \E r \in Runs : ConcStep(r)

\* the overlapping runs start on a new store
InitConc == Init /\ db = EmptyDb

SpecConc == InitConc /\ [][NextConc]_vars

(* ----------------------------------------------------------------------- *)
(* Properties of ingestion                                                 *)
(* ----------------------------------------------------------------------- *)
\* the session row of id in the store, as a set (empty when there is none)
SessionOf(store, id) == { s \in store.sessions : s.id = id }

\* the message rows a processing pass gives session id
FreshRows(id, messages) ==
    [i \in 1..Len(messages) |-> MessageRow(id, messages[i])]

\* the log of the artifact a stored session was read from, when the
\* artifact still has the timestamp the session row records
StoredFromCurrent(s) == files[s.raw_path].mtime = s.modified_at

\* C1: a run without force over artifacts that all have the timestamp the
\* previous run over them saw leaves the committed store as it was when
\* the run started.
C1_RerunUnchangedIsNoOp ==
    \A r \in Runs :
        (pc[r] = "done" /\ ~ args[r].force /\ unchanged[r])
            => db = startDb[r]

\* C2: once ingest has replaced a session, the message rows of its id, as
\* the run sees the store and as the run commits them, are exactly the
\* rows of the fresh processing pass.
C2_ReplaceLeavesOnlyFreshRows ==
    \A r \in Runs :
        (pc[r] \in {"scan", "done"} /\ cur[r].set)
            => MessagesOf(View(r), cur[r].session.id)
                 = FreshRows(cur[r].session.id, cur[r].messages)

\* C2 witness: a stored session of four messages replaced by a pass that
\* gives two.
C2_Witness ==
    \E r \in Runs :
        /\ pc[r] = "scan"
        /\ cur[r].set
        /\ SessionOf(db, cur[r].session.id) # {}
        /\ Len(MessagesOf(db, cur[r].session.id)) = 4
        /\ Len(cur[r].messages) = 2
        /\ Len(MessagesOf(View(r), cur[r].session.id)) = 2

\* C3: no stored session comes from a log whose reading raised.
C3_RaisingSessionNotStored ==
    \A s \in db.sessions :
        StoredFromCurrent(s) => ~ RaisesIn(Logs[files[s.raw_path].log])

\* C4: every session row, committed or written by a run, has
\* message_count = user_message_count + assistant_message_count.
C4_CountsAddUp ==
    \A s \in db.sessions \cup UNION { tx[r].sessions : r \in Runs } :
        s.message_count = s.user_message_count + s.assistant_message_count

\* C4 witness: the store holds a session read from a log with skipped
\* lines and one read from a log whose reading stopped on an exception.
C4_Witness ==
    /\ \E s \in db.sessions :
          /\ StoredFromCurrent(s)
          /\ RaisesIn(Logs[files[s.raw_path].log])
          /\ s.message_count = 2
    /\ \E s \in db.sessions :
          /\ StoredFromCurrent(s)
          /\ Malformed \in Range(Logs[files[s.raw_path].log])
          /\ s.message_count = 3

\* C5: the stored struggle_score of every session is the weighting table
\* applied to the stored intent and counters.
C5_ScoreRecomputes ==
    \A s \in db.sessions \cup UNION { tx[r].sessions : r \in Runs } :
        s.struggle_score = compute_struggle_score(s)

\* C5 witness: a stored execution session with an error, a retry and a
\* correction, scoring 2 + 2 + 3 = 7 points.
C5_Witness ==
    \E s \in db.sessions :
        /\ s.intent = "execution"
        /\ s.error_count = 1 /\ s.retry_count = 1 /\ s.correction_count = 1
        /\ s.struggle_score = 28

\* C6: after a store write failed in a run, every session other than the
\* one being replaced has, in the committed store, the rows the run last
\* wrote or found for it.
C6_FailureKeepsOtherSessions ==
    \A r \in Runs :
        pc[r] = "failed" =>
            \A id \in Ids \ {cur[r].session.id} :
                /\ SessionOf(db, id) = SessionOf(View(r), id)
                /\ MessagesOf(db, id) = MessagesOf(View(r), id)

\* the rows of session id are those of one processing pass of one log
SinglePass(store, id) ==
    \E s \in store.sessions :
        /\ s.id = id
        /\ \E l \in 1..Len(Logs) :
              LET out == process_session(Logs[l], s.raw_path, s.modified_at)
              IN  /\ s = SessionRow(out.session, s.ingested_at)
                  /\ MessagesOf(store, id) = FreshRows(id, out.messages)

\* C7: in the committed store every session id has either no row at all or
\* the session row and the message rows of one single processing pass.
C7_OneVersionPerSession ==
    \A id \in Ids :
        \/ SessionOf(db, id) = {} /\ MessagesOf(db, id) = << >>
        \/ SinglePass(db, id)

\* C7 witness: two runs that started on the same store before either had
\* committed have both replaced the same session id, from two versions of
\* the artifact, and both have committed.
C7_Witness ==
    /\ pc[1] = "done" /\ pc[2] = "done"
    /\ startDb[1] = startDb[2]
    /\ cur[1].set /\ cur[2].set
    /\ cur[1].session.id = cur[2].session.id
    /\ cur[1].session.modified_at # cur[2].session.modified_at
    /\ db # startDb[1]

\* C8: a run without force never skips as unchanged an artifact whose
\* replace the run before it was interrupted in.
C8_InterruptedIsReprocessed ==
    \A r \in Runs :
        ~ args[r].force => \A p \in skippedAs[r] : owed[r][p] = "no"

\* C8, amended: an interrupted run commits nothing, and a run without force
\* never skips as unchanged an artifact whose replace a run without force
\* was interrupted in just before.
C8_InterruptedUnforcedIsReprocessed ==
    /\ \A r \in Runs : pc[r] \in {"killed", "failed"} => db = startDb[r]
    /\ \A r \in Runs :
          ~ args[r].force
              => \A p \in skippedAs[r] : owed[r][p] # "unforced"

\* C8 witness: the run after an interrupted run without force is replacing
\* the artifact the interruption fell in.
C8_Witness ==
    \E r \in Runs :
        /\ ~ args[r].force
        /\ pc[r] = "delete"
        /\ owed[r][cur[r].path] = "unforced"

(* ----------------------------------------------------------------------- *)
(* Extraction strategies                                                   *)
(* ----------------------------------------------------------------------- *)
\* most retries, and most error / discovery messages, of a generated log
MaxRetries == 7
MaxFlagged == 3

\* "retries within 5 messages of each other"
RetryWindow == 5
\* "discovery within 10 messages of error"
DiscoveryWindow == 10
\* LIMIT 10
SessionLimit == 10
\* struggle_score > 5, in quarter points
ScoreThreshold == 4 * 5

StruggleIntents == {"execution", "continuation", "debug"}

RECURSIVE OrderByScoreAsc(_)
\* the lowest score first
OrderByScoreAsc(rows) ==
    IF rows = {} THEN << >>
    ELSE LET low == CHOOSE s \in rows :
                       \A t \in rows : s.struggle_score <= t.struggle_score
         IN  << low >> \o OrderByScoreAsc(rows \ {low})

RECURSIVE OrderByScoreDesc(_)
\* ORDER BY struggle_score DESC (rows of equal score in some order)
OrderByScoreDesc(rows) ==
    IF rows = {} THEN << >>
    ELSE LET top == CHOOSE s \in rows :
                       \A t \in rows : t.struggle_score <= s.struggle_score
         IN  << top >> \o OrderByScoreDesc(rows \ {top})

Limit(rows, n) == SubSeq(rows, 1, IF Len(rows) < n THEN Len(rows) ELSE n)

\* the session query of strategies A, B and D
SelectStruggling(store, project) ==
    Limit(OrderByScoreDesc({ s \in store.sessions :
                               /\ s.project = project
                               /\ s.struggle_score > ScoreThreshold
                               /\ s.intent \in StruggleIntents }),
          SessionLimit)

RECURSIVE InsertBySeq(_, _)
InsertBySeq(rows, m) ==
    IF rows = << >> THEN << m >>
    ELSE IF rows[Len(rows)].seq <= m.seq THEN Append(rows, m)
         ELSE Append(InsertBySeq(SubSeq(rows, 1, Len(rows) - 1), m),
                     rows[Len(rows)])

\* ORDER BY seq
OrderBySeq(rows) ==
    LET F[i \in 0..Len(rows)] ==
            IF i = 0 THEN << >> ELSE InsertBySeq(F[i - 1], rows[i])
    IN  F[Len(rows)]

\* WHERE session_id = ? AND is_retry = 1 AND role = 'assistant'
SelectRetries(store, sess_id) ==
    LET Retry(m) == /\ m.session_id = sess_id
                    /\ m.is_retry = 1
                    /\ m.role = "assistant"
    IN  OrderBySeq(SelectSeq(store.messages, Retry))

\* WHERE session_id = ? AND (has_error = 1 OR is_discovery = 1)
SelectFlagged(store, sess_id) ==
    LET Flagged(m) == /\ m.session_id = sess_id
                      /\ (m.has_error = 1 \/ m.is_discovery = 1)
    IN  OrderBySeq(SelectSeq(store.messages, Flagged))

\* the header line of an output block; no sample session id is longer
\* than the 12 characters the header keeps
Header(s) ==
    [ session |-> s.session_id, score |-> s.struggle_score,
      intent |-> s.intent, domain |-> s.domain ]

RECURSIVE ChainLoopStrictWindow(_, _, _, _, _)
\* a retry exactly 5 messages after the previous one starts a new chain
ChainLoopStrictWindow(retries, i, chains, current_chain, min_chain) ==
    LET closed == IF Len(current_chain) >= min_chain
                  THEN Append(chains, current_chain) ELSE chains
    IN  IF i > Len(retries) THEN closed
        ELSE IF retries[i].seq - retries[i - 1].seq < RetryWindow
             THEN ChainLoopStrictWindow(retries, i + 1, chains,
                      Append(current_chain, retries[i]), min_chain)
             ELSE ChainLoopStrictWindow(retries, i + 1, closed,
                      << retries[i] >>, min_chain)

RECURSIVE ChainLoop(_, _, _, _, _)
\* the loop over retries[1:], and the closing of the last chain after it
ChainLoop(retries, i, chains, current_chain, min_chain) ==
    LET closed == IF Len(current_chain) >= min_chain
                  THEN Append(chains, current_chain) ELSE chains
    IN  IF i > Len(retries) THEN closed
        ELSE IF retries[i].seq - retries[i - 1].seq <= RetryWindow
             THEN ChainLoop(retries, i + 1, chains,
                            Append(current_chain, retries[i]), min_chain)
             ELSE ChainLoop(retries, i + 1, closed,
                            << retries[i] >>, min_chain)

\* the chains of one session (none when it has fewer retries than
\* min_chain: the loop is skipped)
RetryChains(retries, min_chain) ==
    IF Len(retries) < min_chain THEN << >>
    ELSE ChainLoop(retries, 2, << >>, << retries[1] >>, min_chain)

\* one output block per chain, each under its own header
ChainBlocks(s, chains) ==
    [ i \in 1..Len(chains) |->
        [ header |-> Header(s),
          size |-> Len(chains[i]),
          lines |-> [ j \in 1..Len(chains[i]) |->
                        << chains[i][j].seq,
                           chains[i][j].content_preview >> ] ] ]

\* the output blocks, in order; none stands for "(no retry chains found)"
strategy_a_retry_chains(store, project, min_chain) ==
    LET sessions == SelectStruggling(store, project)
        F[i \in 0..Len(sessions)] ==
            IF i = 0 THEN << >>
            ELSE F[i - 1] \o
                 ChainBlocks(sessions[i],
                     RetryChains(SelectRetries(store, sessions[i].id),
                                 min_chain))
    IN  F[Len(sessions)]

RECURSIVE FirstDiscoveryFromError(_, _, _)
\* the window starting at the error itself
FirstDiscoveryFromError(discoveries, j, err_seq) ==
    IF j > Len(discoveries) THEN 0
    ELSE IF /\ 0 <= discoveries[j].seq - err_seq
            /\ discoveries[j].seq - err_seq <= DiscoveryWindow
         THEN j
         ELSE FirstDiscoveryFromError(discoveries, j + 1, err_seq)

RECURSIVE FirstDiscovery(_, _, _)
\* the inner loop: the index of the discovery it breaks at, 0 if it ends
FirstDiscovery(discoveries, j, err_seq) ==
    IF j > Len(discoveries) THEN 0
    ELSE IF /\ 0 < discoveries[j].seq - err_seq
            /\ discoveries[j].seq - err_seq <= DiscoveryWindow
         THEN j
         ELSE FirstDiscovery(discoveries, j + 1, err_seq)

\* the pairs of one session, from its flagged messages
ErrorPairs(messages) ==
    LET Err(m) == m.has_error = 1
        Disc(m) == m.is_discovery = 1
        errors == SelectSeq(messages, Err)
        discoveries == SelectSeq(messages, Disc)
        F[i \in 0..Len(errors)] ==
            IF i = 0 THEN << >>
            ELSE LET j == FirstDiscovery(discoveries, 1, errors[i].seq)
                 IN  IF j = 0 THEN F[i - 1]
                     ELSE Append(F[i - 1],
                              << errors[i].seq,
                                 errors[i].content_preview,
                                 discoveries[j].seq,
                                 discoveries[j].content_preview >>)
    IN  F[Len(errors)]

\* one output block per session that has pairs; none stands for
\* "(no error->resolution pairs found)"
strategy_b_error_resolution(store, project) ==
    LET sessions == SelectStruggling(store, project)
        F[i \in 0..Len(sessions)] ==
            IF i = 0 THEN << >>
            ELSE LET pairs ==
                         ErrorPairs(SelectFlagged(store, sessions[i].id))
                 IN  IF pairs = << >> THEN F[i - 1]
                     ELSE Append(F[i - 1],
                              [ header |-> Header(sessions[i]),
                                pairs |-> pairs ])
    IN  F[Len(sessions)]

(* --------------------------- the stores read --------------------------- *)
Filler == A("done", << >>)

RECURSIVE FlaggedLines(_, _)
\* assistant records with the given texts, the k-th one gaps[k] records
\* after the one before it, unflagged records in between
FlaggedLines(gaps, texts) ==
    IF gaps = << >> THEN << >>
    ELSE [ k \in 1..(gaps[1] - 1) |-> Filler ]
         \o << A(texts[1], << >>) >>
         \o FlaggedLines(Tail(gaps), Tail(texts))

\* a log: the first user message, `lead` unflagged records, the flagged
\* ones, and `pad` corrections by the user at the end
SessionLog(first, lead, gaps, texts, pad) ==
    << U(first) >>
    \o [ k \in 1..lead |-> Filler ]
    \o FlaggedLines(gaps, texts)
    \o [ k \in 1..pad |-> U("no, that's not what I meant") ]

Pads == {0, 2}
RetryGaps == {1, 5, 6}
FlaggedGaps == {1, 3, 10, 12}
FlaggedTexts ==
    { "error: file not found", "that is resolved",
      "it failed, that's because of a typo" }

\* the logs ingested into the store an extractor reads
RetryLogs ==
    { SessionLog("please implement the login fix", 1, gaps,
                 [k \in 1..Len(gaps) |-> "let me try a different approach"],
                 pad) :
        pad \in Pads,
        gaps \in UNION { [1..n -> RetryGaps] : n \in 0..MaxRetries } }

FlaggedLogs ==
    { SessionLog("please implement the login fix", 4, gt[1], gt[2], pad) :
        pad \in Pads,
        gt \in UNION { [1..n -> FlaggedGaps] \X [1..n -> FlaggedTexts] :
                         n \in 0..MaxFlagged } }

\* what ingest leaves of one more session of project p1, next to it
OtherSession ==
    Replaced(EmptyDb,
             process_session(Logs[1], [dir |-> "p1", sid |-> "b"], 1), 0)

\* the store holds session a of project p1, ingested from a generated
\* log, next to another session of the project
InitExtract ==
    /\ InitIngest
    /\ listing[1].dir = "p1"
    /\ db = EmptyDb
    /\ \E log \in RetryLogs \cup FlaggedLogs :
            xdb = Replaced(OtherSession,
                      process_session(log, [dir |-> "p1", sid |-> "a"], 1),
                      0)
    /\ xout = NoOut

Projects == {"p1", "p2"}
MinChains == 1..3

\* the store after a strategy's statements, all of them SELECTs (a mutant)
AfterWrites(store) == [store EXCEPT !.messages = << >>]

\* the store after a strategy's statements, all of them SELECTs, between
\* get_db() and db.close()
AfterSelects(store) == store

\* a call returns its output; each call is looked at on its own
CallA(project, min_chain) ==
    /\ xout = NoOut
    /\ xout' = [ strategy |-> "a", project |-> project,
                 min_chain |-> min_chain,
                 output |->
                     strategy_a_retry_chains(xdb, project, min_chain) ]
    /\ xdb' = AfterSelects(xdb)
    /\ UNCHANGED << envVars, db, clock, lock, runVars, histVars >>

CallB(project) ==
    /\ xout = NoOut
    /\ xout' = [ strategy |-> "b", project |-> project,
                 output |-> strategy_b_error_resolution(xdb, project) ]
    /\ xdb' = AfterSelects(xdb)
    /\ UNCHANGED << envVars, db, clock, lock, runVars, histVars >>

NextExtract ==
    \/ \E project \in Projects : \E min_chain \in MinChains :
            CallA(project, min_chain)
    \/ \E project \in Projects : CallB(project)

SpecExtract == InitExtract /\ [][NextExtract]_vars

(* ----------------------------------------------------------------------- *)
(* Properties of extraction                                                *)
(* ----------------------------------------------------------------------- *)
\* the sessions the last call selected
Selected ==
    { s \in xdb.sessions :
        \E i \in 1..Len(SelectStruggling(xdb, xout.project)) :
            SelectStruggling(xdb, xout.project)[i] = s }

\* the output blocks of session s, in output order
BlocksOf(s) ==
    LET Mine(b) == b.header.session = s.session_id
    IN  SelectSeq(xout.output, Mine)

Ascending(seq) == \A i \in 1..(Len(seq) - 1) : seq[i] < seq[i + 1]

\* sequence numbers of the retry-flagged assistant messages of session s
RetrySeqs(s) ==
    { m.seq : m \in { x \in Range(xdb.messages) :
                        /\ x.session_id = s.id
                        /\ x.role = "assistant"
                        /\ x.is_retry = 1 } }

\* the element of R that follows x
Succ(R, x) == CHOOSE y \in R : y > x /\ \A z \in R : z > x => y <= z

\* a <= b of R are in one run: no two consecutive elements of R between
\* them are more than 5 apart
SameRun(R, a, b) ==
    \A x \in R : (a <= x /\ x < b) => Succ(R, x) - x <= 5

\* the maximal runs of R
MaximalRuns(R) ==
    { { b \in R : IF a <= b THEN SameRun(R, a, b) ELSE SameRun(R, b, a) } :
        a \in R }

SeqsOfChain(block) == [ j \in 1..Len(block.lines) |-> block.lines[j][1] ]

ExampleRetries == {2, 3, 4, 10, 11, 12, 13}

\* C9: for every session strategy A selects, the emitted chains are, each
\* once and in ascending order, exactly the maximal runs of the session's
\* retry sequence numbers (consecutive retries at most 5 apart) that have
\* at least min_chain members; retries at 2,3,4,10,11,12,13 with
\* min_chain = 3 give two chains, of lengths 3 and 4; a session that is
\* not selected gives no chain
C9_ChainsAreLongMaximalRuns ==
    xout.strategy = "a" =>
        \A s \in xdb.sessions :
            LET blocks == BlocksOf(s)
                long == { C \in MaximalRuns(RetrySeqs(s)) :
                            Cardinality(C) >= xout.min_chain }
            IN  IF s \in Selected
                THEN /\ { Range(SeqsOfChain(blocks[i])) :
                            i \in 1..Len(blocks) } = long
                     /\ Len(blocks) = Cardinality(long)
                     /\ \A i \in 1..Len(blocks) :
                            /\ Ascending(SeqsOfChain(blocks[i]))
                            /\ blocks[i].size = Len(blocks[i].lines)
                     /\ \A i \in 1..(Len(blocks) - 1) :
                            blocks[i].lines[1][1] < blocks[i + 1].lines[1][1]
                     /\ (RetrySeqs(s) = ExampleRetries /\ xout.min_chain = 3)
                            => /\ Len(blocks) = 2
                               /\ blocks[1].size = 3
                               /\ blocks[2].size = 4
                ELSE blocks = << >>

\* strategy A has run with min_chain = 3 on a session with retries at
\* 2,3,4,10,11,12,13 and has emitted two chains
C9_Witness ==
    /\ xout.strategy = "a"
    /\ xout.min_chain = 3
    /\ \E s \in Selected :
        /\ RetrySeqs(s) = ExampleRetries
        /\ Len(BlocksOf(s)) = 2
        /\ SeqsOfChain(BlocksOf(s)[1]) = << 2, 3, 4 >>
        /\ SeqsOfChain(BlocksOf(s)[2]) = << 10, 11, 12, 13 >>

ErrorSeqs(s) ==
    { m.seq : m \in { x \in Range(xdb.messages) :
                        x.session_id = s.id /\ x.has_error = 1 } }

DiscoverySeqs(s) ==
    { m.seq : m \in { x \in Range(xdb.messages) :
                        x.session_id = s.id /\ x.is_discovery = 1 } }

\* the discoveries after error e and at most 10 messages after it
InWindow(s, e) == { d \in DiscoverySeqs(s) : e < d /\ d <= e + 10 }

Least(S) == CHOOSE d \in S : \A x \in S : d <= x

\* the << error, discovery >> sequence numbers strategy B lists for s
PairSeqs(s) ==
    LET blocks == BlocksOf(s)
        F[i \in 0..Len(blocks)] ==
            IF i = 0 THEN << >>
            ELSE F[i - 1] \o
                 [ k \in 1..Len(blocks[i].pairs) |->
                     << blocks[i].pairs[k][1], blocks[i].pairs[k][3] >> ]
    IN  F[Len(blocks)]

\* C10: for every session strategy B selects, each error at e that has a
\* discovery d with e < d <= e + 10 is listed once, with the least such d,
\* and no other pair is listed: an error without such a discovery has no
\* pair, and no message is paired with itself; error at 5 with discoveries
\* at 8 and 20 gives the single pair (5, 8)
C10_ErrorPairsWithFirstDiscovery ==
    xout.strategy = "b" =>
        \A s \in xdb.sessions :
            LET pairs == PairSeqs(s)
            IN  IF s \in Selected
                THEN /\ Range(pairs) =
                            { << e, Least(InWindow(s, e)) >> :
                                e \in { x \in ErrorSeqs(s) :
                                          InWindow(s, x) # {} } }
                     /\ \A i, j \in 1..Len(pairs) :
                            i < j => pairs[i][1] < pairs[j][1]
                     /\ \A i \in 1..Len(pairs) : pairs[i][1] # pairs[i][2]
                     /\ Len(BlocksOf(s)) <= 1
                     /\ (ErrorSeqs(s) = {5} /\ DiscoverySeqs(s) = {8, 20})
                            => pairs = << << 5, 8 >> >>
                ELSE pairs = << >>

\* strategy B has run on a session with an error at 5 and discoveries at 8
\* and 20, and has listed the pair (5, 8) alone
C10_Witness ==
    /\ xout.strategy = "b"
    /\ \E s \in Selected :
        /\ ErrorSeqs(s) = {5}
        /\ DiscoverySeqs(s) = {8, 20}
        /\ PairSeqs(s) = << << 5, 8 >> >>

\* strategy B has listed one discovery for two errors
C10_SharedDiscovery ==
    /\ xout.strategy = "b"
    /\ \E s \in Selected :
        \E i, j \in 1..Len(PairSeqs(s)) :
            i # j /\ PairSeqs(s)[i][2] = PairSeqs(s)[j][2]

(* ----------------------------------------------------------------------- *)
(* Extraction strategies C and D                                           *)
(* ----------------------------------------------------------------------- *)
\* most assistant records of a generated log with tool calls, and most
\* records of a generated log with corrections
MaxTools == 7
MaxTurns == 5

\* the session query of strategy C
SelectCorrected(store, project) ==
    LET Ordered[rows \in SUBSET store.sessions] ==
            IF rows = {} THEN << >>
            ELSE LET top == CHOOSE s \in rows : \A t \in rows :
                               t.correction_count <= s.correction_count
                 IN  << top >> \o Ordered[rows \ {top}]
    IN  Limit(Ordered[{ s \in store.sessions :
                          /\ s.project = project
                          /\ s.correction_count > 0 }],
              SessionLimit)

\* the previews a LEFT JOIN on (session_id, seq) gives: those of the
\* matching rows, or one NULL when there is none; `any` drops the
\* condition on session_id
JoinPreviews(store, sess_id, seq, any) ==
    LET Match(m) == (any \/ m.session_id = sess_id) /\ m.seq = seq
        rows == SelectSeq(store.messages, Match)
    IN  IF rows = << >> THEN << None >>
        ELSE [ k \in 1..Len(rows) |-> rows[k].content_preview ]

\* the successor joined on seq alone
SelectCorrectionsAnyNext(store, sess_id) ==
    LET Corr(m) == m.session_id = sess_id /\ m.is_correction = 1
        ms == OrderBySeq(SelectSeq(store.messages, Corr))
        Rows(m) ==
            LET prev == JoinPreviews(store, sess_id, m.seq - 1, FALSE)
                next == JoinPreviews(store, sess_id, m.seq + 1, TRUE)
            IN  [ k \in 1..(Len(prev) * Len(next)) |->
                    [ seq |-> m.seq,
                      content_preview |-> m.content_preview,
                      prev_msg |-> prev[((k - 1) \div Len(next)) + 1],
                      next_msg |-> next[((k - 1) % Len(next)) + 1] ] ]
        F[i \in 0..Len(ms)] ==
            IF i = 0 THEN << >> ELSE F[i - 1] \o Rows(ms[i])
    IN  F[Len(ms)]

\* the corrections of one session, each with the previews of the
\* messages one before and one after it in the session
SelectCorrections(store, sess_id) ==
    LET Corr(m) == m.session_id = sess_id /\ m.is_correction = 1
        ms == OrderBySeq(SelectSeq(store.messages, Corr))
        Rows(m) ==
            LET prev == JoinPreviews(store, sess_id, m.seq - 1, FALSE)
                next == JoinPreviews(store, sess_id, m.seq + 1, FALSE)
            IN  [ k \in 1..(Len(prev) * Len(next)) |->
                    [ seq |-> m.seq,
                      content_preview |-> m.content_preview,
                      prev_msg |-> prev[((k - 1) \div Len(next)) + 1],
                      next_msg |-> next[((k - 1) % Len(next)) + 1] ] ]
        F[i \in 0..Len(ms)] ==
            IF i = 0 THEN << >> ELSE F[i - 1] \o Rows(ms[i])
    IN  F[Len(ms)]

\* (prev or '(none)'): NULL and the empty text are shown the same way
OrNone(text) == IF text = None \/ text = "" THEN "(none)" ELSE text

\* one output block per session that has corrections; none stands for
\* "(no corrections found)"
strategy_c_corrections(store, project) ==
    LET sessions == SelectCorrected(store, project)
        F[i \in 0..Len(sessions)] ==
            IF i = 0 THEN << >>
            ELSE LET corrections ==
                         SelectCorrections(store, sessions[i].id)
                 IN  IF corrections = << >> THEN F[i - 1]
                     ELSE Append(F[i - 1],
                              [ header |-> Header(sessions[i]),
                                triplets |->
                                  [ k \in 1..Len(corrections) |->
                                    [ said |->
                                        << corrections[k].seq - 1,
                                           OrNone(corrections[k].prev_msg) >>,
                                      corrected |->
                                        << corrections[k].seq,
                                           corrections[k].content_preview >>,
                                      responded |->
                                        << corrections[k].seq + 1,
                                           OrNone(corrections[k].next_msg) >>
                                    ] ] ])
    IN  F[Len(sessions)]

\* WHERE session_id = ? AND tool_call_count > 0
SelectToolCalls(store, sess_id) ==
    LET WithTools(m) == m.session_id = sess_id /\ m.tool_call_count > 0
    IN  OrderBySeq(SelectSeq(store.messages, WithTools))

RECURSIVE InnerLoopAnyTool(_, _, _, _)
\* the run goes on when the anchor is any of the message's tools
InnerLoopAnyTool(messages, j, primary_tool, chain) ==
    IF j > Len(messages) THEN [j |-> j, chain |-> chain]
    ELSE LET next_tools == IF messages[j].tool_names # NULL
                           THEN json_loads(messages[j].tool_names)
                           ELSE << >>
         IN  IF next_tools # << >> /\ primary_tool \in Range(next_tools)
             THEN InnerLoopAnyTool(messages, j + 1, primary_tool,
                                   Append(chain, messages[j]))
             ELSE IF next_tools = << >>
                  THEN InnerLoopAnyTool(messages, j + 1, primary_tool, chain)
                  ELSE [j |-> j, chain |-> chain]

RECURSIVE InnerLoop(_, _, _, _)
\* the inner while: j and the chain when it ends
InnerLoop(messages, j, primary_tool, chain) ==
    IF j > Len(messages) THEN [j |-> j, chain |-> chain]
    ELSE LET next_tools == IF messages[j].tool_names # NULL
                           THEN json_loads(messages[j].tool_names)
                           ELSE << >>
         IN  IF next_tools # << >> /\ next_tools[1] = primary_tool
             THEN InnerLoop(messages, j + 1, primary_tool,
                            Append(chain, messages[j]))
             ELSE IF next_tools = << >>
                  THEN InnerLoop(messages, j + 1, primary_tool, chain)
                  ELSE [j |-> j, chain |-> chain]

RECURSIVE OuterLoop(_, _, _, _)
\* the outer while: the repetitions found from message i on
OuterLoop(messages, i, repetitions, min_repeats) ==
    IF i > Len(messages) THEN repetitions
    ELSE IF messages[i].tool_names = NULL
         THEN OuterLoop(messages, i + 1, repetitions, min_repeats)
    ELSE LET tools == json_loads(messages[i].tool_names)
         IN  IF tools = << >>
             THEN OuterLoop(messages, i + 1, repetitions, min_repeats)
             ELSE
             LET primary_tool == tools[1]
                 run == InnerLoop(messages, i + 1, primary_tool,
                                  << messages[i] >>)
                 chain == run.chain
                 found ==
                     IF Len(chain) >= min_repeats
                     THEN Append(repetitions,
                              [ tool |-> primary_tool,
                                size |-> Len(chain),
                                lines |-> [ k \in 1..Len(chain) |->
                                    << chain[k].seq,
                                       chain[k].content_preview >> ] ])
                     ELSE repetitions
             IN  OuterLoop(messages,
                           IF run.j > i + 1 THEN run.j ELSE i + 1,
                           found, min_repeats)

\* one output block per session that has repetitions; none stands for
\* "(no tool repetitions found)"
strategy_d_tool_repetition(store, project, min_repeats) ==
    LET sessions == SelectStruggling(store, project)
        F[i \in 0..Len(sessions)] ==
            IF i = 0 THEN << >>
            ELSE LET repetitions ==
                         OuterLoop(SelectToolCalls(store, sessions[i].id),
                                   1, << >>, min_repeats)
                 IN  IF repetitions = << >> THEN F[i - 1]
                     ELSE Append(F[i - 1],
                              [ header |-> Header(sessions[i]),
                                repetitions |-> repetitions ])
    IN  F[Len(sessions)]

(* --------------------------- the stores read --------------------------- *)
\* the tool calls of one assistant record: none, Bash, or Read then Bash
ToolCalls == { << >>, << "Bash" >>, << "Read", "Bash" >> }

\* a log whose assistant records make the given tool calls, closed by two
\* corrections of the user
ToolLog(calls) ==
    << U("please implement the login fix") >>
    \o [ k \in 1..Len(calls) |-> A("done", calls[k]) ]
    \o [ k \in 1..2 |-> U("no, that's not what I meant") ]

ToolLogs ==
    { ToolLog(calls) :
        calls \in UNION { [1..n -> ToolCalls] : n \in 0..MaxTools } }

\* the records of a log with corrections: a correction of the user, an
\* answer of the assistant, a tool call of the assistant without text
Turns ==
    { U("no, that's not what I meant"), A("done", << >>),
      A("", << "Bash" >>) }

CorrectionLogs == UNION { [1..n -> Turns] : n \in 0..MaxTurns }

\* the store holds session a of project p1, ingested from a generated
\* log, next to another session of the project
InitExtractCD ==
    /\ InitIngest
    /\ listing[1].dir = "p1"
    /\ db = EmptyDb
    /\ \E log \in ToolLogs \cup CorrectionLogs :
            xdb = Replaced(OtherSession,
                      process_session(log, [dir |-> "p1", sid |-> "a"], 1),
                      0)
    /\ xout = NoOut

MinRepeats == 1..3

CallD(project, min_repeats) ==
    /\ xout = NoOut
    /\ xout' = [ strategy |-> "d", project |-> project,
                 min_repeats |-> min_repeats,
                 output |->
                     strategy_d_tool_repetition(xdb, project, min_repeats) ]
    /\ xdb' = AfterSelects(xdb)
    /\ UNCHANGED << envVars, db, clock, lock, runVars, histVars >>

CallC(project) ==
    /\ xout = NoOut
    /\ xout' = [ strategy |-> "c", project |-> project,
                 output |-> strategy_c_corrections(xdb, project) ]
    /\ xdb' = AfterSelects(xdb)
    /\ UNCHANGED << envVars, db, clock, lock, runVars, histVars >>

NextExtractCD ==
    \/ \E project \in Projects : CallC(project)
    \/ \E project \in Projects : \E min_repeats \in MinRepeats :
            CallD(project, min_repeats)

SpecExtractCD == InitExtractCD /\ [][NextExtractCD]_vars

(* ----------------------------------------------------------------------- *)
(* Properties of strategies C and D                                        *)
(* ----------------------------------------------------------------------- *)
\* the first tool name of each message of session s that has tool calls,
\* in ascending sequence order, as << seq, first tool >>
FirstTools(s) ==
    LET rows == SelectToolCalls(xdb, s.id)
    IN  [ k \in 1..Len(rows) |->
            << rows[k].seq, json_loads(rows[k].tool_names)[1] >> ]

\* positions a..b of ft are a maximal run: one first tool throughout, and
\* a different first tool (or no message) on either side
IsToolRun(ft, a, b) ==
    /\ a <= b
    /\ \A k \in a..b : ft[k][2] = ft[a][2]
    /\ (a > 1 => ft[a - 1][2] # ft[a][2])
    /\ (b < Len(ft) => ft[b + 1][2] # ft[a][2])

\* the maximal runs with at least n members, as << tool, sequence numbers >>
LongToolRuns(ft, n) ==
    { << ft[ab[1]][2], [ k \in 1..(ab[2] - ab[1] + 1) |->
                           ft[ab[1] + k - 1][1] ] >> :
        ab \in { x \in (1..Len(ft)) \X (1..Len(ft)) :
                   IsToolRun(ft, x[1], x[2]) /\ x[2] - x[1] + 1 >= n } }

\* the repetitions strategy D lists for s, in output order
RepetitionsOf(s) ==
    LET blocks == BlocksOf(s)
        F[i \in 0..Len(blocks)] ==
            IF i = 0 THEN << >> ELSE F[i - 1] \o blocks[i].repetitions
    IN  F[Len(blocks)]

SeqsOfRun(rep) == [ k \in 1..Len(rep.lines) |-> rep.lines[k][1] ]

\* the first tools of the messages of s, in sequence order, messages
\* without tool calls included (as "none")
ToolsInOrder(s) ==
    LET rows == OrderBySeq(MessagesOf(xdb, s.id))
    IN  [ k \in 1..Len(rows) |->
            IF rows[k].tool_names = NULL THEN "none"
            ELSE json_loads(rows[k].tool_names)[1] ]

\* C11: for every session strategy D selects, the repetitions listed are,
\* each once and in ascending order, exactly the maximal runs of messages
\* with one first tool name (messages without tool calls left aside) that
\* have at least min_repeats members; a session that is not selected gives
\* none; tool calls A,A,none,A,B,B,B with min_repeats = 3 give one run of
\* A and one run of B, each of 3 messages
C11_RepetitionsAreLongToolRuns ==
    xout.strategy = "d" =>
        \A s \in xdb.sessions :
            LET reps == RepetitionsOf(s)
            IN  IF s \in Selected
                THEN /\ { << reps[i].tool, SeqsOfRun(reps[i]) >> :
                            i \in 1..Len(reps) }
                          = LongToolRuns(FirstTools(s), xout.min_repeats)
                     /\ \A i \in 1..Len(reps) :
                            reps[i].size = Len(reps[i].lines)
                     /\ \A i \in 1..(Len(reps) - 1) :
                            reps[i].lines[1][1] < reps[i + 1].lines[1][1]
                     /\ Len(BlocksOf(s)) <= 1
                ELSE reps = << >>

\* strategy D has run with min_repeats = 3 on a session whose assistant
\* messages call Bash, Bash, nothing, Bash, Read, Read, Read, and has
\* listed a run of Bash at 1,2,4 and a run of Read at 5,6,7
C11_Witness ==
    /\ xout.strategy = "d"
    /\ xout.min_repeats = 3
    /\ \E s \in Selected :
        /\ Len(ToolsInOrder(s)) >= 8
        /\ SubSeq(ToolsInOrder(s), 2, 8)
             = << "Bash", "Bash", "none", "Bash", "Read", "Read", "Read" >>
        /\ Len(RepetitionsOf(s)) = 2
        /\ RepetitionsOf(s)[1].tool = "Bash"
        /\ SeqsOfRun(RepetitionsOf(s)[1]) = << 1, 2, 4 >>
        /\ RepetitionsOf(s)[2].tool = "Read"
        /\ SeqsOfRun(RepetitionsOf(s)[2]) = << 5, 6, 7 >>

\* the sessions the last call of strategy C selected
SelectedC ==
    { s \in xdb.sessions :
        \E i \in 1..Len(SelectCorrected(xdb, xout.project)) :
            SelectCorrected(xdb, xout.project)[i] = s }

\* the triplets strategy C lists for s, in output order
TripletsOf(s) ==
    LET blocks == BlocksOf(s)
        F[i \in 0..Len(blocks)] ==
            IF i = 0 THEN << >> ELSE F[i - 1] \o blocks[i].triplets
    IN  F[Len(blocks)]

\* sequence numbers of the correction-flagged messages of session s
CorrectionSeqs(s) ==
    { m.seq : m \in { x \in Range(xdb.messages) :
                        x.session_id = s.id /\ x.is_correction = 1 } }

\* what is shown of the message of s at sequence number q: its preview,
\* or "(none)" when s has no such message or its preview is empty
ShownAt(s, q) ==
    LET at == { m \in Range(xdb.messages) :
                  m.session_id = s.id /\ m.seq = q }
    IN  IF at = {} THEN "(none)"
        ELSE LET m == CHOOSE x \in at : TRUE
             IN  IF m.content_preview = "" THEN "(none)"
                 ELSE m.content_preview

\* C12: for every session strategy C selects, there is one triplet per
\* correction-flagged message, in ascending sequence order, made of what is
\* shown of the session's own message one before it, the correction, and
\* what is shown of the session's own message one after it; where the
\* session has no message before or after, "(none)" is shown, never a
\* message of another session
C12_TripletsAreNeighboursInSession ==
    xout.strategy = "c" =>
        \A s \in xdb.sessions :
            LET ts == TripletsOf(s)
            IN  IF s \in SelectedC
                THEN /\ Len(ts) = Cardinality(CorrectionSeqs(s))
                     /\ { ts[i].corrected[1] : i \in 1..Len(ts) }
                            = CorrectionSeqs(s)
                     /\ \A i \in 1..(Len(ts) - 1) :
                            ts[i].corrected[1] < ts[i + 1].corrected[1]
                     /\ \A i \in 1..Len(ts) :
                          LET q == ts[i].corrected[1]
                          IN  /\ ts[i].corrected[2] = ShownAt(s, q)
                              /\ ts[i].said = << q - 1, ShownAt(s, q - 1) >>
                              /\ ts[i].responded
                                    = << q + 1, ShownAt(s, q + 1) >>
                     /\ Len(BlocksOf(s)) <= 1
                ELSE ts = << >>

\* strategy C has listed, for a session whose first message is a
\* correction, "(none)" as what came before it, and for a session whose
\* last message is a correction, "(none)" as what came after it, while
\* another session of the store has a message with that sequence number
C12_Witness ==
    /\ xout.strategy = "c"
    /\ \E s \in SelectedC : \E i \in 1..Len(TripletsOf(s)) :
        /\ TripletsOf(s)[i].corrected[1] = 0
        /\ TripletsOf(s)[i].said = << 0 - 1, "(none)" >>
        /\ TripletsOf(s)[i].responded[2] = "done"
    /\ \E s \in SelectedC : \E i \in 1..Len(TripletsOf(s)) :
        LET q == TripletsOf(s)[i].corrected[1]
        IN  /\ TripletsOf(s)[i].responded = << q + 1, "(none)" >>
            /\ \A m \in Range(xdb.messages) :
                    m.session_id = s.id => m.seq <= q
            /\ \E m \in Range(xdb.messages) :
                    m.session_id # s.id /\ m.seq = q + 1

\* strategy C has shown "(none)" for a message that is in the session,
\* its preview being empty
C12_EmptyShownAsNone ==
    /\ xout.strategy = "c"
    /\ \E s \in SelectedC : \E i \in 1..Len(TripletsOf(s)) :
        /\ TripletsOf(s)[i].said[2] = "(none)"
        /\ \E m \in Range(xdb.messages) :
            /\ m.session_id = s.id
            /\ m.seq = TripletsOf(s)[i].said[1]

(* ----------------------------------------------------------------------- *)
(* The sessions the strategies select                                      *)
(* ----------------------------------------------------------------------- *)
\* most sessions of the store that pass the session query of A, B and D
MaxSessions == 12

\* names of session logs
SidNames ==
    << "s01", "s02", "s03", "s04", "s05", "s06", "s07", "s08", "s09", "s10",
       "s11", "s12", "s13", "s14", "s15", "s16", "s17", "s18" >>

\* an execution session with k retries, an error and its resolution:
\* score 2k + 2
StruggleLog(k) ==
    << U("please implement the login fix") >>
    \o [ i \in 1..k |-> A("let me try a different approach", << "Bash" >>) ]
    \o << A("error: file not found", << "Bash" >>),
          A("that is resolved", << >>) >>

\* an execution session with a retry and a correction: score 5
LowLog ==
    << U("please implement the login fix"),
       A("let me try a different approach", << "Bash" >>),
       U("no, that's not what I meant") >>

\* a planning session with a retry, an error, its resolution and two
\* corrections: score 6.25
PlanLog ==
    << U("let me try a different approach"),
       A("let me try a different approach", << "Bash" >>),
       A("error: file not found", << "Bash" >>),
       A("that is resolved", << >>),
       U("no, that's not what I meant"),
       U("no, that's not what I meant") >>

Rep(x, n) == [ i \in 1..n |-> x ]

\* the logs of a store: high of score 8 and mid of score 6 in project p1,
\* and at most one each of score 5, of intent planning, of project p2
SessionLogs(high, mid, low, plan, far) ==
    Rep([log |-> StruggleLog(2), dir |-> "p1"], mid)
    \o Rep([log |-> LowLog, dir |-> "p1"], low)
    \o Rep([log |-> StruggleLog(3), dir |-> "p1"], high)
    \o Rep([log |-> PlanLog, dir |-> "p1"], plan)
    \o Rep([log |-> StruggleLog(3), dir |-> "p2"], far)

\* the store ingest leaves of the logs, each under a name of its own
StoreOf(logs) ==
    LET F[i \in 0..Len(logs)] ==
            IF i = 0 THEN EmptyDb
            ELSE Replaced(F[i - 1],
                     process_session(logs[i].log,
                         [dir |-> logs[i].dir, sid |-> SidNames[i]], 1),
                     0)
    IN  F[Len(logs)]

InitSelect ==
    /\ InitIngest
    /\ listing[1].dir = "p1"
    /\ db = EmptyDb
    /\ \E high \in 0..MaxSessions : \E mid \in 0..(MaxSessions - high) :
       \E low \in 0..1 : \E plan \in 0..1 : \E far \in 0..1 :
            xdb = StoreOf(SessionLogs(high, mid, low, plan, far))
    /\ xout = NoOut

\* the caller is done with the output of a call
Return ==
    /\ xout # NoOut
    /\ xout' = NoOut
    /\ UNCHANGED << envVars, db, clock, lock, runVars, histVars, xdb >>

NextSelect ==
    \/ \E project \in Projects : CallA(project, 1)
    \/ \E project \in Projects : CallB(project)
    \/ \E project \in Projects : CallC(project)
    \/ \E project \in Projects : CallD(project, 1)
    \/ Return

SpecSelect == InitSelect /\ [][NextSelect]_vars

(* ----------------------------------------------------------------------- *)
(* Properties of the selection and of the output                           *)
(* ----------------------------------------------------------------------- *)
\* the sessions with a block in the output of the last call
WithBlocks ==
    IF xout.strategy = "none" THEN {}
    ELSE { s \in xdb.sessions : BlocksOf(s) # << >> }

\* C13: every session for which a strategy (A, B, C or D) emits a block
\* has a struggle_score above 5
C13_BlocksOnlyAboveThreshold ==
    \A s \in WithBlocks : s.struggle_score > 4 * 5

\* the sessions of the requested project with a struggle_score above 5 and
\* intent execution, continuation or debug
Qualifying ==
    { s \in xdb.sessions :
        /\ s.project = xout.project
        /\ s.struggle_score > 4 * 5
        /\ s.intent \in {"execution", "continuation", "debug"} }

Min(a, b) == IF a < b THEN a ELSE b

\* C14: the sessions for which strategy A, B or D emits a block are
\* sessions of the requested project with a struggle_score above 5 and
\* intent execution, continuation or debug; they are at most 10 (all of
\* the qualifying ones up to 10, each of them having evidence here), and
\* no qualifying session left out has a higher score than one taken
C14_TakesTheTopTenQualifying ==
    xout.strategy \in {"a", "b", "d"} =>
        /\ WithBlocks \subseteq Qualifying
        /\ Cardinality(WithBlocks) <= 10
        /\ Cardinality(WithBlocks) = Min(10, Cardinality(Qualifying))
        /\ \A out \in Qualifying \ WithBlocks : \A in \in WithBlocks :
                out.struggle_score <= in.struggle_score

\* a strategy has taken 10 sessions and left out qualifying ones, of a
\* lower score than some session taken
C14_Witness ==
    /\ xout.strategy \in {"a", "b", "d"}
    /\ Cardinality(WithBlocks) = 10
    /\ \E out \in Qualifying \ WithBlocks : \E in \in WithBlocks :
            out.struggle_score < in.struggle_score
    /\ \E s \in xdb.sessions \ Qualifying :
            s.project = xout.project /\ s.struggle_score = 4 * 5

\* C15: in the output of a strategy there are as many SESSION headers as
\* there are sessions with evidence: each such session has one header,
\* however many chains, pairs, triplets or runs it has
C15_OneHeaderPerSession ==
    xout.strategy # "none" =>
        /\ Len(xout.output) = Cardinality(WithBlocks)
        /\ \A s \in WithBlocks : Len(BlocksOf(s)) = 1

\* C16: no call of a strategy (A, B, C or D) changes the store: every
\* session row and every message row stays as it was
C16_StrategiesLeaveStore == [][xdb' = xdb]_vars

\* a strategy has returned evidence read from a store with sessions and
\* messages
C16_Witness ==
    /\ xout.strategy \in {"a", "b", "c", "d"}
    /\ xout.output # << >>
    /\ xdb.sessions # {}
    /\ xdb.messages # << >>

(* ----------------------------------------------------------------------- *)
(* A strategy running next to ingestion                                    *)
(* ----------------------------------------------------------------------- *)
\* the writing connection's uncommitted rows read by another connection
ReaderViewUncommitted == View(1)

\* the rows a connection other than the writing one reads: the committed
\* ones
ReaderView == db

\* the session query of a strategy
SessionsFor(strategy, store, project) ==
    IF strategy = "c" THEN SelectCorrected(store, project)
    ELSE SelectStruggling(store, project)

\* the output blocks of a strategy
StrategyOutput(strategy, store, project, n) ==
    CASE strategy = "a" -> strategy_a_retry_chains(store, project, n)
      [] strategy = "b" -> strategy_b_error_resolution(store, project)
      [] strategy = "c" -> strategy_c_corrections(store, project)
      [] strategy = "d" -> strategy_d_tool_repetition(store, project, n)

\* one pass of a strategy's loop over the sessions: the blocks of the
\* session row s, its messages read from the store
BlocksFor(strategy, store, s, n) ==
    StrategyOutput(strategy,
                   [sessions |-> {s}, messages |-> store.messages],
                   s.project, n)

\* the logs of the artifacts: a.jsonl of p1 and b.jsonl with evidence
MixedLog(p) == IF p.sid = "b" THEN 1 ELSE InitialLog(p)

RECURSIVE MixedStore(_, _)
\* the store a completed run over the first n artifacts has left
MixedStore(l, n) ==
    IF n = 0 THEN EmptyDb
    ELSE Replaced(MixedStore(l, n - 1),
                  process_session(Logs[MixedLog(l[n])], l[n], 1), 0)

\* the store holds what an earlier run over the artifacts left, a.jsonl
\* of p1 read after a.jsonl of p2
InitMixed ==
    /\ files = [p \in Paths |-> [mtime |-> 1, log |-> MixedLog(p)]]
    /\ listing \in Listings
    /\ listing[1].dir = "p2"
    /\ db = MixedStore(listing, Len(listing))
    /\ clock = 0
    /\ lock = 0
    /\ pc = [r \in Runs |-> "idle"]
    /\ args = [r \in Runs |->
                 [force |-> FALSE, project_filter |-> None, now |-> 0]]
    /\ existing = [r \in Runs |-> [p \in Paths |-> 0]]
    /\ todo = [r \in Runs |-> 0]
    /\ cur = [r \in Runs |-> NoCur]
    /\ tx = [r \in Runs |-> NoTx]
    /\ counts = [r \in Runs |-> [ingested |-> 0, skipped |-> 0, updated |-> 0]]
    /\ startDb = [r \in Runs |-> db]
    /\ prevSeen = [p \in Paths |-> 1]
    /\ unchanged = [r \in Runs |-> FALSE]
    /\ seen = [r \in Runs |-> [p \in Paths |-> 0]]
    /\ skippedAs = [r \in Runs |-> {}]
    /\ broken = [p \in Paths |-> "no"]
    /\ owed = [r \in Runs |-> [p \in Paths |-> "no"]]
    /\ xdb = EmptyDb
    /\ xout = NoOut

Strategies == {"a", "b", "c", "d"}

\* the strategy's session query; xdb keeps the store as it was then
QuerySessions(strategy, project, n) ==
    /\ xout = NoOut
    /\ LET sessions == SessionsFor(strategy, ReaderView, project)
       IN  xout' = [ strategy |-> strategy, project |-> project, n |-> n,
                     phase |-> IF sessions = << >> THEN "done"
                               ELSE "reading",
                     sessions |-> sessions, next |-> 1,
                     output |-> << >> ]
    /\ xdb' = ReaderView
    /\ UNCHANGED << envVars, db, clock, lock, runVars, histVars >>

\* the strategy's message query for the next session, and its blocks
QueryMessages ==
    /\ xout # NoOut
    /\ xout.phase = "reading"
    /\ xout' = [ xout EXCEPT
                   !.output = @ \o BlocksFor(xout.strategy, ReaderView,
                                             xout.sessions[xout.next],
                                             xout.n),
                   !.next = @ + 1,
                   !.phase = IF xout.next = Len(xout.sessions)
                             THEN "done" ELSE "reading" ]
    /\ UNCHANGED << envVars, db, clock, lock, runVars, histVars, xdb >>

NextMixed ==
    \/ \E p \in Paths : Touch(p, {1})
    \/ ConcStep(1)
    \/ \E strategy \in Strategies : QuerySessions(strategy, "p1", 1)
    \/ QueryMessages

SpecMixed == InitMixed /\ [][NextMixed]_vars

\* the rows of the session s that the strategy selected are in the store
\* as they were when it selected s
NotReplaced(s) ==
    /\ SessionOf(db, s.id) = {s}
    /\ MessagesOf(db, s.id) = MessagesOf(xdb, s.id)

\* C17: when a strategy has run while ingestion was going on, the blocks
\* it returns for a session that ingestion has not replaced are the
\* blocks it returns when run alone on the store: it has not read that
\* session's row with a message set that is empty or partly rewritten
C17_SameEvidenceNextToIngestion ==
    (xout # NoOut /\ xout.phase = "done") =>
        \A i \in 1..Len(xout.sessions) :
            LET s == xout.sessions[i]
            IN  NotReplaced(s) =>
                    /\ BlocksOf(s)
                         = BlocksFor(xout.strategy, xdb, s, xout.n)
                    /\ Len(MessagesOf(xdb, s.id)) = s.message_count

\* a strategy has finished after an ingestion run committed the
\* replacement of one session it had selected, and has returned evidence
\* for another one, which was not replaced
C17_Witness ==
    /\ xout # NoOut
    /\ xout.phase = "done"
    /\ db # xdb
    /\ \E i \in 1..Len(xout.sessions) : ~ NotReplaced(xout.sessions[i])
    /\ \E i \in 1..Len(xout.sessions) :
        /\ NotReplaced(xout.sessions[i])
        /\ BlocksOf(xout.sessions[i]) # << >>

(* ----------------------------------------------------------------------- *)
(* Intent detection and scoring on their own: detect_intent on the sample  *)
(* first messages, compute_struggle_score on sessions of every intent      *)
(* ----------------------------------------------------------------------- *)
\* the largest value of a session's counters here
MaxCount == 3

\* the labels a session's intent can be
Intents ==
    { IntentOrder[i] : i \in 1..Len(IntentOrder) }
        \cup { "startup", "continuation", "unknown" }

InitPure ==
    /\ InitIngest
    /\ listing[1].dir = "p1"
    /\ db = EmptyDb
    /\ xdb = EmptyDb
    /\ xout = NoOut

CallDetectIntent(first_message) ==
    /\ xout = NoOut
    /\ xout' = [ strategy |-> "detect_intent",
                 first_message |-> first_message,
                 output |-> detect_intent(first_message) ]
    /\ UNCHANGED << envVars, db, clock, lock, runVars, histVars, xdb >>

CallScore(session) ==
    /\ xout = NoOut
    /\ xout' = [ strategy |-> "compute_struggle_score",
                 session |-> session,
                 output |-> compute_struggle_score(session) ]
    /\ UNCHANGED << envVars, db, clock, lock, runVars, histVars, xdb >>

NextPure ==
    \/ \E first_message \in FirstMessages : CallDetectIntent(first_message)
    \/ \E intent \in Intents :
       \E errors, retries, corrections \in 0..MaxCount :
            CallScore([ intent |-> intent, error_count |-> errors,
                        retry_count |-> retries,
                        correction_count |-> corrections ])

SpecPure == InitPure /\ [][NextPure]_vars

\* the message as the rules and the patterns see it
Seen == Normalized(xout.first_message)

WarmupPhrases == {"warmup", "say hello", "tui", "think high"}

\* one of the literal, prefix or substring rules applies to the message
SomeSpecialCase ==
    \/ Seen \in WarmupPhrases
    \/ \E prefix \in {"# soul", "<command-name>/clear",
                       "<command-message>resume", "<command-message>tickets",
                       "<command-message>plugin"} : StartsWith(Seen, prefix)
    \/ Contains(Seen, "read the latest session")
    \/ Contains(Seen, "read the latest_session")

\* number of the label's patterns that match the message
Matching(i) == INTENT_PATTERNS(IntentOrder[i], Seen)

\* the positions, in the enumeration order, of the labels no other label
\* beats
Leaders ==
    { i \in 1..Len(IntentOrder) :
        /\ Matching(i) > 0
        /\ \A j \in 1..Len(IntentOrder) : Matching(j) <= Matching(i) }

\* C18: when no special-case rule matches the first message, detect_intent
\* returns the label with the most matching patterns, of tied labels the one
\* that comes first in the order execution, planning, debug, config,
\* research, review, and "unknown" when no pattern of any label matches
C18_HighestCountFirstInOrder ==
    (xout.strategy = "detect_intent" /\ xout.first_message # ""
        /\ ~ SomeSpecialCase) =>
        /\ IntentOrder =
             << "execution", "planning", "debug", "config", "research",
                "review" >>
        /\ Leaders = {} => xout.output = "unknown"
        /\ Leaders # {} =>
             \E i \in Leaders :
                /\ \A j \in Leaders : i <= j
                /\ xout.output = IntentOrder[i]
        /\ xout.first_message = "please implement the login fix" =>
             xout.output = "execution"
        /\ xout.first_message
                = "can you help me understand how the cache works" =>
             xout.output = "research"

\* a message on which three labels tie, the first of them returned
C18_Witness ==
    /\ xout.strategy = "detect_intent"
    /\ ~ SomeSpecialCase
    /\ Cardinality(Leaders) = 3
    /\ xout.output = "execution"

\* a message no pattern matches
C18_NoneMatches ==
    /\ xout.strategy = "detect_intent"
    /\ xout.first_message # ""
    /\ ~ SomeSpecialCase
    /\ Leaders = {}
    /\ xout.output = "unknown"

\* C19: a first message that, lower-cased and trimmed, is a warmup phrase or
\* starts with "# soul" gives startup, and one that starts with the clear /
\* resume / tickets / plugin command prefix gives continuation / execution /
\* review / config, whatever patterns of the labels it matches
C19_SpecialCasesFirst ==
    xout.strategy = "detect_intent" =>
        /\ Seen \in WarmupPhrases => xout.output = "startup"
        /\ StartsWith(Seen, "# soul") => xout.output = "startup"
        /\ StartsWith(Seen, "<command-name>/clear") =>
             xout.output = "continuation"
        /\ StartsWith(Seen, "<command-message>resume") =>
             xout.output = "execution"
        /\ StartsWith(Seen, "<command-message>tickets") =>
             xout.output = "review"
        /\ StartsWith(Seen, "<command-message>plugin") =>
             xout.output = "config"

\* a plugin command whose text matches patterns of execution only
C19_Witness ==
    /\ xout.strategy = "detect_intent"
    /\ StartsWith(Seen, "<command-message>plugin")
    /\ Leaders = {1}
    /\ xout.output = "config"

\* a warmup phrase written with capitals and blanks around it
C19_TrimmedWarmup ==
    /\ xout.strategy = "detect_intent"
    /\ xout.first_message # Seen
    /\ Seen \in WarmupPhrases
    /\ xout.output = "startup"

\* C20: in quarter points, a session of intent execution or continuation
\* scores errors*2 + retries*2 + corrections*3, one of intent startup 0,
\* one of intent unknown errors + retries + corrections*2, and no session
\* scores below 0
C20_ScoreFormulas ==
    xout.strategy = "compute_struggle_score" =>
        LET intent      == xout.session.intent
            errors      == xout.session.error_count
            retries     == xout.session.retry_count
            corrections == xout.session.correction_count
        IN  /\ intent \in {"execution", "continuation"} =>
                 xout.output
                    = 4 * errors * 2 + 4 * retries * 2 + 4 * corrections * 3
            /\ intent = "startup" => xout.output = 0
            /\ intent = "unknown" =>
                 xout.output = 4 * errors + 4 * retries + 4 * corrections * 2
            /\ xout.output >= 0

\* a continuation session with all three counters at work
C20_Witness ==
    /\ xout.strategy = "compute_struggle_score"
    /\ xout.session.intent = "continuation"
    /\ xout.session.error_count = 1
    /\ xout.session.retry_count = 2
    /\ xout.session.correction_count = 3
    /\ xout.output = 4 * 15

(* ----------------------------------------------------------------------- *)
(* Domain detection on its own: detect_domain on message lists             *)
(* ----------------------------------------------------------------------- *)
\* the longest message list here
MaxMessages == 3

\* sample previews
DomainTexts ==
    { "style the button", "the sql query reads the table",
      "fetch the api endpoint", "refactor the pattern", "SQL Database",
      "run the test", "done", "" }

MessageLists ==
    UNION { [1..n -> [content_preview : DomainTexts]] : n \in 0..MaxMessages }

InitDomain ==
    /\ InitIngest
    /\ listing[1].dir = "p1"
    /\ db = EmptyDb
    /\ xdb = EmptyDb
    /\ xout = NoOut

CallDetectDomain(messages) ==
    /\ xout = NoOut
    /\ xout' = [ strategy |-> "detect_domain",
                 messages |-> messages,
                 output |-> detect_domain(messages) ]
    /\ UNCHANGED << envVars, db, clock, lock, runVars, histVars, xdb >>

NextDomain == \E messages \in MessageLists : CallDetectDomain(messages)

SpecDomain == InitDomain /\ [][NextDomain]_vars

\* occurrences of the label's patterns in the previews of the messages up
\* to the n-th
Occurrences(domain, n) ==
    LET F[i \in 0..n] ==
            IF i = 0 THEN 0
            ELSE F[i - 1]
                 + DOMAIN_PATTERNS(domain, xout.messages[i].content_preview)
    IN  F[n]

Total(domain) == Occurrences(domain, Len(xout.messages))

Domains == { DomainOrder[i] : i \in 1..Len(DomainOrder) }

\* C21: the domain is a label whose occurrences, summed over the previews
\* of all the messages, are the most of any label, and "general" when no
\* label has an occurrence
C21_DomainHasMostOccurrences ==
    xout.strategy = "detect_domain" =>
        IF \A d \in Domains : Total(d) = 0
        THEN xout.output = "general"
        ELSE /\ xout.output \in Domains
             /\ Total(xout.output) > 0
             /\ \A d \in Domains : Total(d) <= Total(xout.output)

\* the label that leads in the first message is not the one that leads in
\* the session
C21_Witness ==
    /\ xout.strategy = "detect_domain"
    /\ Len(xout.messages) >= 2
    /\ \E d \in Domains :
        /\ d # xout.output
        /\ \A e \in Domains : Occurrences(e, 1) <= Occurrences(d, 1)
        /\ Occurrences(xout.output, 1) = 0
    /\ Total(xout.output) > 0

\* messages without any occurrence
C21_General ==
    /\ xout.strategy = "detect_domain"
    /\ Len(xout.messages) >= 2
    /\ xout.output = "general"

(* ----------------------------------------------------------------------- *)
(* Properties of process_session, on the artifacts of an ingestion run     *)
(* ----------------------------------------------------------------------- *)
\* the lines of the artifact run r has processed last
LinesOf(r) == Logs[files[cur[r].path].log]

IsRecord(line) == line.type \in {"user", "assistant"}

\* the user and assistant records of the lines, in file order
Records(lines) == SelectSeq(lines, IsRecord)

\* the messages of run r's session are the records, numbered from 0
RetainsAll(r, records) ==
    /\ cur[r].session.message_count = Len(records)
    /\ Len(cur[r].messages) = Len(records)
    /\ \A i \in 1..Len(records) :
        /\ cur[r].messages[i].seq = i - 1
        /\ cur[r].messages[i].role = records[i].type
        /\ cur[r].messages[i].content_preview = records[i].text

\* C22: every line that is not a user or assistant record is passed over
\* and costs nothing: the session's messages are all the user and assistant
\* records of the file, in file order, numbered 0, 1, 2, ...
C22_SkippedLinesCostNothing ==
    \A r \in Runs :
        cur[r].set => RetainsAll(r, Records(LinesOf(r)))

\* the same, for the files whose other lines are not JSON or are records
\* of another type
C22_SkippedWhenDecodeErrorOrOtherType ==
    \A r \in Runs :
        (cur[r].set /\ ~ RaisesIn(LinesOf(r)))
            => RetainsAll(r, Records(LinesOf(r)))

\* a file with a line that is not JSON and a record of another type
\* between its records
C22_SkippedSome ==
    \E r \in Runs :
        /\ cur[r].set
        /\ ~ RaisesIn(LinesOf(r))
        /\ \E i, j, k \in 1..Len(LinesOf(r)) :
            /\ i < k /\ j < k
            /\ LinesOf(r)[i].type = "malformed"
            /\ LinesOf(r)[j].type = "system"
            /\ IsRecord(LinesOf(r)[k])

(* ----------------------------------------------------------------------- *)
(* process_session on its own, one line of the file after the other        *)
(* ----------------------------------------------------------------------- *)
\* the longest file here
MaxLines == 3

\* a text of 300 characters and one that is longer
Text50 == "abcdefghi abcdefghi abcdefghi abcdefghi abcdefghi "
Text300 == Text50 \o Text50 \o Text50 \o Text50 \o Text50 \o Text50
LongText == Text300 \o "and more"

\* a user record with a tool-use block in its content
UserWithTool ==
    [type |-> "user", text |-> "error: file not found",
     tools |-> << "Bash" >>]

\* the lines the files are made of
SampleLines ==
    { U("please implement the login fix"), U(CAVEAT), U(LongText),
      U("no, that's not what I meant"), UserWithTool,
      U("the issue is resolved, working now"),
      A("error: file not found", << "Read", "Bash" >>),
      A("the issue is resolved, working now", << "Bash" >>),
      A("no, that's not what I meant", << >>),
      Other, Raises }

SampleFiles == UNION { [1..n -> SampleLines] : n \in 0..MaxLines }

SamplePath == [dir |-> "p1", sid |-> "a"]

InitProcess ==
    /\ InitIngest
    /\ listing[1].dir = "p1"
    /\ db = EmptyDb
    /\ xdb = EmptyDb
    /\ xout = NoOut

\* the dictionary and the empty list, before the file is opened
OpenFile(lines) ==
    /\ xout = NoOut
    /\ xout' = [ strategy |-> "process_session",
                 lines |-> lines,
                 read |-> 0,
                 phase |-> "reading",
                 acc |-> [ session |-> NewSession(SamplePath, 1),
                           messages |-> << >>, seq |-> 0 ] ]
    /\ UNCHANGED << envVars, db, clock, lock, runVars, histVars, xdb >>

\* one pass of the loop over the file's lines
ReadLine ==
    /\ xout # NoOut
    /\ xout.strategy = "process_session"
    /\ xout.phase = "reading"
    /\ xout.read < Len(xout.lines)
    /\ LET line == xout.lines[xout.read + 1]
       IN  xout' = [ xout EXCEPT
                        !.read = @ + 1,
                        !.phase = IF line.type = "raises" THEN "raised"
                                  ELSE "reading",
                        !.acc = ReadLines(<< line >>, 1, @) ]
    /\ UNCHANGED << envVars, db, clock, lock, runVars, histVars, xdb >>

\* after the loop, or after the except clause: the derived fields
ReturnSession ==
    /\ xout # NoOut
    /\ xout.strategy = "process_session"
    /\ \/ xout.phase = "reading" /\ xout.read = Len(xout.lines)
       \/ xout.phase = "raised"
    /\ xout' = [ xout EXCEPT
                    !.phase = "returned",
                    !.acc.session = Derive(@, xout.acc.messages) ]
    /\ UNCHANGED << envVars, db, clock, lock, runVars, histVars, xdb >>

\* ingest writes what process_session returned: the session row, then the
\* message rows in place of those of the id
StoreSession ==
    /\ xout # NoOut
    /\ xout.strategy = "process_session"
    /\ xout.phase = "returned"
    /\ xout' = [xout EXCEPT !.phase = "stored"]
    /\ xdb' = Replaced(xdb, [ session |-> xout.acc.session,
                              messages |-> xout.acc.messages ], 1)
    /\ UNCHANGED << envVars, db, clock, lock, runVars, histVars >>

NextProcess ==
    \/ \E lines \in SampleFiles : OpenFile(lines)
    \/ ReadLine
    \/ ReturnSession
    \/ StoreSession

SpecProcess == InitProcess /\ [][NextProcess]_vars

\* process_session is being run, or has returned
InProcess == xout # NoOut /\ xout.strategy = "process_session"

\* what the steps return is what process_session returns
StepsAgree ==
    (InProcess /\ xout.phase = "returned") =>
        LET out == process_session(xout.lines, SamplePath, 1)
        IN  /\ xout.acc.session = out.session
            /\ xout.acc.messages = out.messages

\* the user records, among the first n lines, whose text does not begin
\* with the caveat marker
QualifyingUsers(n) ==
    { i \in 1..n :
        /\ xout.lines[i].type = "user"
        /\ ~ HasPrefix(xout.lines[i].text, CaveatMarker) }

\* the first 300 characters of the earliest of them, None without one
EarliestOf(n) ==
    IF QualifyingUsers(n) = {} THEN None
    ELSE LET i == CHOOSE k \in QualifyingUsers(n) :
                    \A j \in QualifyingUsers(n) : k <= j
             text == xout.lines[i].text
         IN  IF Len(text) > 300 THEN SubSeq(text, 1, 300) ELSE text

\* C23: the session's first_message is the first 300 characters of the
\* earliest user record of the file whose text does not begin with the
\* caveat marker, and null when the file has no such record
C23_FirstMessageIsEarliestQualifying ==
    (InProcess /\ xout.phase = "returned") =>
        xout.acc.session.first_message = EarliestOf(Len(xout.lines))

\* the lines read before the loop was left
LinesRead == IF xout.phase = "raised" THEN xout.read - 1 ELSE xout.read

\* the same at every step, for the lines the loop has read: first_message
\* is set by the earliest qualifying record read and no later record
\* changes it
C23_EarliestQualifyingRead ==
    (InProcess /\ xout.phase # "returned") =>
        xout.acc.session.first_message = EarliestOf(LinesRead)

\* first_message, once set, stays as it is
C23_SetOnce ==
    [][(InProcess /\ xout.acc.session.first_message # None)
        => xout'.acc.session.first_message
             = xout.acc.session.first_message]_vars

\* a caveat, a text longer than 300 characters, then another user record:
\* the first 300 characters of the second record
C23_CutTo300 ==
    /\ InProcess
    /\ xout.phase = "returned"
    /\ Len(xout.lines) = 3
    /\ xout.lines[1] = U(CAVEAT)
    /\ xout.lines[2] = U(LongText)
    /\ xout.lines[3].type = "user"
    /\ Len(xout.acc.session.first_message) = 300
    /\ xout.acc.session.first_message = Text300

\* no qualifying user record: first_message stays null
C23_StaysNull ==
    /\ InProcess
    /\ xout.phase = "returned"
    /\ Len(xout.lines) = 3
    /\ ~ RaisesIn(xout.lines)
    /\ \E i \in 1..3 : xout.lines[i] = U(CAVEAT)
    /\ xout.acc.session.first_message = None

(* ----------------------------------------------------------------------- *)
(* Properties of the stored rows                                           *)
(* ----------------------------------------------------------------------- *)
\* the sequence numbers of the message rows of session id, as a set
SeqsOf(store, id) ==
    { MessagesOf(store, id)[i].seq : i \in 1..Len(MessagesOf(store, id)) }

HeldFor(store, p) == \E s \in store.sessions : s.raw_path = p

\* the artifacts run r has got past the project filter
Passed(r) == { p \in Paths : seen[r][p] # 0 }

\* those of them it has processed
Processed(r) == Passed(r) \ skippedAs[r]

\* the counters say: skipped artifacts as unchanged, processed ones as
\* updated when the store held a session for the path when the run started
\* and as new when it held none
CountedByKind(r) ==
    /\ counts[r].skipped = Cardinality(skippedAs[r])
    /\ counts[r].updated =
         Cardinality({ p \in Processed(r) : HeldFor(startDb[r], p) })
    /\ counts[r].ingested =
         Cardinality({ p \in Processed(r) : ~ HeldFor(startDb[r], p) })

\* C25: at the end of a run every artifact that passed the filters is
\* counted once, as unchanged, updated or new, by whether it was skipped
\* and whether the store held a session for its path before the run
C25_EachArtifactCountedByKind ==
    \A r \in Runs : pc[r] = "done" => CountedByKind(r)

\* the same for the runs without force
C25_UnforcedCountedByKind ==
    \A r \in Runs : (pc[r] = "done" /\ ~ args[r].force) => CountedByKind(r)

\* every artifact that passed the filters is in one of the three counters
C25_CountedOnce ==
    \A r \in Runs :
        pc[r] = "done" =>
            counts[r].skipped + counts[r].updated + counts[r].ingested
                = Cardinality(Passed(r))

\* an unforced run that counted one artifact of each kind
C25_OneOfEachKind ==
    \E r \in Runs :
        /\ pc[r] = "done"
        /\ ~ args[r].force
        /\ counts[r] = [ingested |-> 1, skipped |-> 1, updated |-> 1]

\* a run that read a file on which reading raises and went on to the
\* next artifact
C25_WentOnAfterRaise ==
    \E r \in Runs :
        /\ pc[r] = "done"
        /\ \E i, j \in 1..Len(listing) :
            /\ i < j
            /\ listing[i] \in Processed(r)
            /\ RaisesIn(Logs[files[listing[i]].log])
            /\ listing[j] \in Processed(r)

(* ----------------------------------------------------------------------- *)
(* Properties of the stored message rows                                   *)
(* ----------------------------------------------------------------------- *)
\* the message rows of a store, as a set
RowsOf(store) == Range(store.messages)

\* C26: a stored user message has has_error, is_retry and is_discovery 0
\* and no tool names, a stored assistant message has is_correction 0
C26_FlagsByRole ==
    \A m \in RowsOf(xdb) :
        /\ m.role \in {"user", "assistant"}
        /\ m.role = "user" =>
            /\ m.has_error = 0 /\ m.is_retry = 0 /\ m.is_discovery = 0
            /\ m.tool_names = NULL
            /\ m.tool_call_count = 0
        /\ m.role = "assistant" => m.is_correction = 0

\* stored: a user record with a tool-use block whose text matches an error
\* pattern, a user record whose text matches a retry and a discovery
\* pattern, and an assistant record whose text matches a correction
\* pattern
C26_Witness ==
    /\ InProcess
    /\ xout.phase = "stored"
    /\ xout.lines =
         << UserWithTool, U("the issue is resolved, working now"),
            A("no, that's not what I meant", << >>) >>
    /\ Len(xdb.messages) = 3
    /\ check_patterns(xdb.messages[1].content_preview, ERROR_PATTERNS)
    /\ check_patterns(xdb.messages[2].content_preview, RETRY_PATTERNS)
    /\ check_patterns(xdb.messages[2].content_preview, DISCOVERY_PATTERNS)
    /\ check_patterns(xdb.messages[3].content_preview, CORRECTION_PATTERNS)

(* ----------------------------------------------------------------------- *)
(* Properties of the rows of different artifacts                           *)
(* ----------------------------------------------------------------------- *)
\* the store holds the session row of the artifact p as the run saw it,
\* with the message rows of that pass
KeepsItsRows(r, p) ==
    \E s \in db.sessions :
        /\ s.raw_path = p
        /\ s.modified_at = seen[r][p]
        /\ MessagesOf(db, s.id) =
             FreshRows(s.id,
                 process_session(Logs[files[p].log], p,
                                 files[p].mtime).messages)

\* C27: after a run, every artifact the run processed has its own session
\* row and its own message rows in the store; none is overwritten by the
\* rows of another artifact
C27_EveryArtifactKeepsItsRows ==
    \A r \in Runs :
        pc[r] = "done" => \A p \in Processed(r) : KeepsItsRows(r, p)

\* the same for the artifacts whose file name no other processed artifact
\* has
C27_KeepsRowsUnlessSameName ==
    \A r \in Runs :
        pc[r] = "done" =>
            \A p \in Processed(r) :
                (\A q \in Processed(r) : q.sid = p.sid => q = p)
                    => KeepsItsRows(r, p)

\* a run that processed three artifacts in two directories
C27_ThreeProcessed ==
    \E r \in Runs :
        /\ pc[r] = "done"
        /\ Cardinality(Processed(r)) = 3
        /\ KeepsItsRows(r, [dir |-> "p1", sid |-> "b"])

(* ----------------------------------------------------------------------- *)
(* Properties of the session's counters                                    *)
(* ----------------------------------------------------------------------- *)
\* the sum of the column over the rows
SumOf(rows, column) ==
    LET F[i \in 0..Len(rows)] ==
            IF i = 0 THEN 0 ELSE F[i - 1] + rows[i][column]
    IN  F[Len(rows)]

MaxScan == 5

ScanLogs ==
    { ToolLog(calls) :
        calls \in UNION { [1..n -> ToolCalls] : n \in 0..MaxScan } }

InitScan ==
    /\ InitIngest
    /\ listing[1].dir = "p1"
    /\ db = EmptyDb
    /\ \E log \in ScanLogs :
            xdb = Replaced(OtherSession,
                      process_session(log, [dir |-> "p1", sid |-> "a"], 1),
                      0)
    /\ xout = NoOut

\* whether the scan is at the given place
ScanAt(phase) ==
    xout # NoOut /\ xout.strategy = "d_scan" /\ xout.phase = phase

\* json.loads(tools_json) if tools_json else []
ToolsOf(m) ==
    IF m.tool_names # NULL THEN json_loads(m.tool_names) ELSE << >>

\* the message query of one session; repetitions = [], i = 0
ScanSelect(min_repeats) ==
    /\ xout = NoOut
    /\ xout' = [ strategy |-> "d_scan",
                 messages |-> SelectToolCalls(xdb, SessionId("a")),
                 min_repeats |-> min_repeats,
                 i |-> 1, j |-> 1,
                 primary_tool |-> "",
                 chain |-> << >>,
                 repetitions |-> << >>,
                 runs |-> << >>,
                 phase |-> "outer" ]
    /\ xdb' = AfterSelects(xdb)
    /\ UNCHANGED << envVars, db, clock, lock, runVars, histVars >>

\* the head of the outer while: a message without tools is passed over,
\* another one opens a chain
ScanOuter ==
    /\ ScanAt("outer")
    /\ xout.i <= Len(xout.messages)
    /\ LET tools == ToolsOf(xout.messages[xout.i])
       IN  xout' = IF tools = << >>
                   THEN [xout EXCEPT !.i = @ + 1]
                   ELSE [xout EXCEPT
                            !.primary_tool = tools[1],
                            !.chain = << xout.messages[xout.i] >>,
                            !.j = xout.i + 1,
                            !.phase = "inner"]
    /\ UNCHANGED << envVars, db, clock, lock, runVars, histVars, xdb >>

\* the inner while goes on with message j
GoesOn ==
    /\ xout.j <= Len(xout.messages)
    /\ \/ ToolsOf(xout.messages[xout.j]) = << >>
       \/ ToolsOf(xout.messages[xout.j])[1] = xout.primary_tool

\* one pass of the inner while
ScanInner ==
    /\ ScanAt("inner")
    /\ GoesOn
    /\ xout' = [xout EXCEPT
                    !.chain = IF ToolsOf(xout.messages[xout.j]) # << >>
                              THEN Append(@, xout.messages[xout.j])
                              ELSE @,
                    !.j = @ + 1]
    /\ UNCHANGED << envVars, db, clock, lock, runVars, histVars, xdb >>

\* the repetition a chain is reported as
Repetition(primary_tool, chain) ==
    [ tool |-> primary_tool,
      size |-> Len(chain),
      lines |-> [ k \in 1..Len(chain) |->
                    << chain[k].seq, chain[k].content_preview >> ] ]

\* the scan goes on at the message after the chain's first
ScanCloseStepsByOne ==
    /\ ScanAt("inner")
    /\ ~ GoesOn
    /\ xout' = [xout EXCEPT
                    !.repetitions =
                        IF Len(xout.chain) >= xout.min_repeats
                        THEN Append(@, Repetition(xout.primary_tool,
                                                  xout.chain))
                        ELSE @,
                    !.runs = Append(@, xout.chain),
                    !.i = xout.i + 1,
                    !.phase = "outer"]
    /\ UNCHANGED << envVars, db, clock, lock, runVars, histVars, xdb >>

\* after the inner while: the chain is reported when it is long enough,
\* and i = max(j, i + 1)
ScanClose ==
    /\ ScanAt("inner")
    /\ ~ GoesOn
    /\ xout' = [xout EXCEPT
                    !.repetitions =
                        IF Len(xout.chain) >= xout.min_repeats
                        THEN Append(@, Repetition(xout.primary_tool,
                                                  xout.chain))
                        ELSE @,
                    !.runs = Append(@, xout.chain),
                    !.i = IF xout.j > xout.i + 1 THEN xout.j ELSE xout.i + 1,
                    !.phase = "outer"]
    /\ UNCHANGED << envVars, db, clock, lock, runVars, histVars, xdb >>

\* the outer while ends
ScanEnd ==
    /\ ScanAt("outer")
    /\ xout.i > Len(xout.messages)
    /\ xout' = [xout EXCEPT !.phase = "done"]
    /\ UNCHANGED << envVars, db, clock, lock, runVars, histVars, xdb >>

NextScan ==
    \/ \E min_repeats \in MinRepeats : ScanSelect(min_repeats)
    \/ ScanOuter
    \/ ScanInner
    \/ ScanClose
    \/ ScanEnd

SpecScan == InitScan /\ [][NextScan]_vars

\* the scan is one sequential computation: it takes its next step
SpecScanFair == InitScan /\ [][NextScan]_vars /\ WF_vars(NextScan)

\* the steps find what the loops find
ScanAgrees ==
    ScanAt("done") =>
        xout.repetitions = OuterLoop(xout.messages, 1, << >>,
                                     xout.min_repeats)

RECURSIVE Flatten(_)
\* the sequence numbers of the chains, one chain after the other
Flatten(chains) ==
    IF chains = << >> THEN << >>
    ELSE [ k \in 1..Len(Head(chains)) |-> Head(chains)[k].seq ]
         \o Flatten(Tail(chains))

\* the sequence numbers of the reported lines, one repetition after the
\* other
Reported ==
    LET F[n \in 0..Len(xout.repetitions)] ==
            IF n = 0 THEN << >>
            ELSE F[n - 1]
                 \o [ k \in 1..Len(xout.repetitions[n].lines) |->
                        xout.repetitions[n].lines[k][1] ]
    IN  F[Len(xout.repetitions)]

StrictlyAscending(seqs) ==
    \A k \in 1..(Len(seqs) - 1) : seqs[k] < seqs[k + 1]

\* the runs, one after the other, are the tool-invoking messages in
\* ascending sequence order, each once; the reported lines too are in
\* ascending order, none twice
DisjointAscendingRuns ==
    /\ Flatten(xout.runs) =
         [ k \in 1..Len(xout.messages) |-> xout.messages[k].seq ]
    /\ StrictlyAscending(Flatten(xout.runs))
    /\ StrictlyAscending(Reported)
    /\ \A n \in 1..Len(xout.runs) : xout.runs[n] # << >>

\* C29: the scan of strategy D ends for every message list, and when it
\* has ended every tool-invoking message is in exactly one of the runs it
\* found, the runs are in ascending sequence order, and no message is
\* reported in two repetitions
C29_ScanEndsWithDisjointRuns ==
    /\ <>ScanAt("done")
    /\ [](ScanAt("done") => DisjointAscendingRuns)

\* a scan that found three runs and reported two of them
C29_Witness ==
    /\ ScanAt("done")
    /\ Len(xout.messages) = 5
    /\ Len(xout.runs) = 3
    /\ Len(xout.repetitions) = 2
    /\ Len(Reported) = 4

(* ----------------------------------------------------------------------- *)
(* The analysis orchestrator (analyze.py, main)                            *)
(* ----------------------------------------------------------------------- *)
\* the largest number of pain points a classification names
MaxPainPoints == 3

\* the largest number of sessions with struggle_score > 5 in the store
MaxHighStruggle == 1

\* what a pain point of the classification leads to:
\*   "ok"          the recommendation call returns a recommendation with
\*                 action, skill_name and reasoning
\*   "raises"      the recommendation call raises (the command fails or
\*                 times out, the answer is not JSON, the pain point
\*                 lacks severity, description or sessions)
\*   "incomplete"  the call returns a JSON object without action
\*   "no_category" the pain point has no category
PainPointKinds == {"ok", "raises", "incomplete", "no_category"}

\* what the classification call does: it raises, or it names pain points
ClassificationAnswers ==
    { [raises |-> TRUE, pain_points |-> << >>] }
        \cup { [raises |-> FALSE, pain_points |-> named] :
                named \in UNION { [1..n -> PainPointKinds] :
                                    n \in 0..MaxPainPoints } }

\* what extract.py gives: it fails, it finds nothing ("(no ... found)"),
\* or it prints signals
SignalKinds == {"failed", "nothing", "signals"}

NoReport == [written |-> FALSE]

InitAnalyze ==
    /\ InitIngest
    /\ listing[1].dir = "p1"
    /\ db = EmptyDb
    /\ xdb = EmptyDb
    /\ xout = NoOut

AnalyzeAt(phase) ==
    xout # NoOut /\ xout.strategy = "analyze" /\ xout.phase = phase

\* main is started; what the store, extract.py and the language model
\* will answer is fixed here
StartAnalysis(high_struggle, signals, answer) ==
    /\ xout = NoOut
    /\ xout' = [ strategy |-> "analyze",
                 high_struggle |-> high_struggle,
                 signals |-> signals,
                 answer |-> answer,
                 phase |-> "stats",
                 extracted |-> FALSE,
                 llm_calls |-> 0,
                 failed |-> FALSE,
                 pain_points |-> << >>,
                 next |-> 1,
                 recommendations |-> << >>,
                 report |-> NoReport ]
    /\ UNCHANGED << envVars, db, clock, lock, runVars, histVars, xdb >>

\* Step 1: get_project_stats; return when high_struggle is 0
LoadStats ==
    /\ AnalyzeAt("stats")
    /\ xout' = [xout EXCEPT
                    !.phase = IF xout.high_struggle = 0 THEN "returned"
                              ELSE "extract"]
    /\ UNCHANGED << envVars, db, clock, lock, runVars, histVars, xdb >>

\* Step 2: extract_signals raises when extract.py fails; return when it
\* found nothing
ExtractSignals ==
    /\ AnalyzeAt("extract")
    /\ xout' = [xout EXCEPT
                    !.extracted = TRUE,
                    !.phase = CASE xout.signals = "failed" -> "crashed"
                                [] xout.signals = "nothing" -> "returned"
                                [] OTHER -> "classify"]
    /\ UNCHANGED << envVars, db, clock, lock, runVars, histVars, xdb >>

\* Step 3: classify_signals_via_claude inside try / except Exception
Classify ==
    /\ AnalyzeAt("classify")
    /\ LET failed == xout.answer.raises
           pain_points == IF failed THEN << >> ELSE xout.answer.pain_points
       IN  xout' = [xout EXCEPT
                       !.llm_calls = @ + 1,
                       !.failed = failed,
                       !.pain_points = pain_points,
                       !.phase = IF pain_points # << >> THEN "recommend"
                                 ELSE "save"]
    /\ UNCHANGED << envVars, db, clock, lock, runVars, histVars, xdb >>

\* a recommendation, as far as the report needs it
Recommendation(pain_point, complete) ==
    [pain_point |-> pain_point, complete |-> complete]

\* Step 4, one pass of the loop over the pain points: the call, then
\* rec['pain_point'] = pain_point, recommendations.append(rec) and the
\* print of rec['action'], all inside try; the handler prints
\* pain_point['category']
Recommend ==
    /\ AnalyzeAt("recommend")
    /\ xout.next <= Len(xout.pain_points)
    /\ LET kind == xout.pain_points[xout.next]
           after == IF xout.next = Len(xout.pain_points) THEN "save"
                    ELSE "recommend"
       IN  xout' =
             CASE kind = "ok" ->
                    [xout EXCEPT
                        !.llm_calls = @ + 1,
                        !.recommendations =
                            Append(@, Recommendation(xout.next, TRUE)),
                        !.next = @ + 1,
                        !.phase = after]
               [] kind = "raises" ->
                    [xout EXCEPT
                        !.llm_calls = @ + 1,
                        !.next = @ + 1,
                        !.phase = after]
               [] kind = "incomplete" ->
                    [xout EXCEPT
                        !.llm_calls = @ + 1,
                        !.recommendations =
                            Append(@, Recommendation(xout.next, FALSE)),
                        !.next = @ + 1,
                        !.phase = after]
               [] OTHER ->
                    [xout EXCEPT !.phase = "crashed"]
    /\ UNCHANGED << envVars, db, clock, lock, runVars, histVars, xdb >>

\* Step 5: save_analysis_report reads rec['action'], rec['skill_name'],
\* rec['reasoning'] of every recommendation before it writes the file
SaveReport ==
    /\ AnalyzeAt("save")
    /\ xout' =
         IF \A k \in 1..Len(xout.recommendations) :
                xout.recommendations[k].complete
         THEN [xout EXCEPT
                  !.report = [ written |-> TRUE,
                               recommendations |->
                                  [ k \in 1..Len(xout.recommendations) |->
                                      xout.recommendations[k].pain_point ] ],
                  !.phase = "saved"]
         ELSE [xout EXCEPT !.phase = "crashed"]
    /\ UNCHANGED << envVars, db, clock, lock, runVars, histVars, xdb >>

NextAnalyze ==
    \/ \E high_struggle \in 0..MaxHighStruggle :
       \E signals \in SignalKinds : \E answer \in ClassificationAnswers :
            StartAnalysis(high_struggle, signals, answer)
    \/ LoadStats
    \/ ExtractSignals
    \/ Classify
    \/ Recommend
    \/ SaveReport

SpecAnalyze == InitAnalyze /\ [][NextAnalyze]_vars

\* main has ended
AnalysisEnded ==
    AnalyzeAt("returned") \/ AnalyzeAt("saved") \/ AnalyzeAt("crashed")

\* the pain points whose recommendation call succeeded, in their order
Succeeded ==
    LET Ok(i) == xout.answer.pain_points[i] = "ok"
    IN  SelectSeq([i \in 1..Len(xout.answer.pain_points) |-> i], Ok)

\* when signals were extracted the report is saved, with the
\* recommendations of the pain points whose call succeeded
SavedWithSucceeded ==
    (AnalysisEnded /\ xout.high_struggle > 0 /\ xout.signals = "signals")
        => /\ AnalyzeAt("saved")
           /\ xout.report.written
           /\ xout.report.recommendations = Succeeded

\* without a session of struggle_score > 5: no extraction, no call of the
\* language model, no report
NothingWithoutStruggle ==
    (xout # NoOut /\ xout.strategy = "analyze" /\ xout.high_struggle = 0)
        => /\ ~ xout.extracted
           /\ xout.llm_calls = 0
           /\ ~ xout.report.written

\* C30: once signals are extracted, no failure of the classification call
\* or of a recommendation call keeps the report from being saved; the
\* report holds the recommendations of exactly the pain points whose call
\* succeeded, in their order, none when the classification failed; and
\* without a session of struggle_score > 5 nothing is extracted, asked or
\* written
C30_ReportSavedDespiteFailures ==
    /\ SavedWithSucceeded
    /\ NothingWithoutStruggle

\* the same when every failure is an exception of the call itself: no
\* pain point without category, no answer without action
C30_SavedWhenCallsRaise ==
    (xout # NoOut /\ xout.strategy = "analyze"
        /\ \A i \in 1..Len(xout.answer.pain_points) :
                xout.answer.pain_points[i] \in {"ok", "raises"})
        => C30_ReportSavedDespiteFailures

\* a report saved after the second of three recommendation calls raised
C30_SavedAfterFailedCall ==
    /\ AnalyzeAt("saved")
    /\ xout.answer.pain_points = << "ok", "raises", "ok" >>
    /\ xout.report.recommendations = << 1, 3 >>

\* a report saved after the classification call raised
C30_SavedAfterFailedClassification ==
    /\ AnalyzeAt("saved")
    /\ xout.failed
    /\ xout.report.recommendations = << >>

====
